---- MODULE Spec2Model ----
(***************************************************************************)
(* A model of the Opus decoder of aquarana: the TOC parser                 *)
(* (src/src/opus/toc.rs), the packet demuxer (src/src/opus/mod.rs), the    *)
(* bit readers (src/src/opus/entropy/bits.rs), the range decoder           *)
(* (src/src/opus/entropy/mod.rs) and the head of the CELT frame decoder    *)
(* (src/src/opus/celt/mod.rs).                                             *)
(*                                                                         *)
(* A packet is a byte string.  Frame payloads are slices of the packet,    *)
(* kept as (offset, length) pairs exactly as a Rust &[u8] sub-slice is a   *)
(* pointer and a length into the original buffer.                          *)
(***************************************************************************)
EXTENDS Integers, Sequences, FiniteSets, TLC

VARIABLES
    toc_byte,   \* TocSpec: the u8 handed to TableOfContents::decode
    toc_out,    \* TocSpec: the TableOfContents it returned, or NoToc
    packet,     \* the argument of OpusPacket::decode
    pc,         \* position inside OpusPacket::decode
    toc,        \* local `toc` of OpusPacket::decode
    datas,      \* local `datas`: the demuxed frame payload slices
    frames,     \* local `frames`: the OpusFrame values decoded so far
    result      \* how OpusPacket::decode ended: "Ok", "InvalidData",
                \* "FramesOverflow", "Panic" (empty-buffer read or slice out
                \* of range) or "Todo" (todo!() in OpusFrame::deocde)

VARIABLES
    bytes,            \* the frame payload handed to the readers and decoder
    forward_reader,   \* RangeCodingDecoder.forward_reader (BigEndianBitReader)
    reverse_reader,   \* RangeCodingDecoder.reverse_reader (LittleEndianBitReader)
    coded_value,      \* RangeCodingDecoder.coded_value
    range_less1,      \* RangeCodingDecoder.current_range - 1
    consumed_bits,    \* RangeCodingDecoder.consumed_bits
    bitstream_length, \* RangeCodingDecoder.bitstream_length
    status,           \* "ok", or how the last call left the decoder
    last,             \* the last call made: its name, arguments and result
                      \* ("silence": the silence flag of decode, with the
                      \* difference available() computed, whether logp(15)
                      \* was read, and its result)
    n_ops,            \* number of calls made so far
    fwd_pos,          \* bits handed out by forward_reader so far
    rev_pos,          \* bits handed out by reverse_reader so far
    celt              \* the CeltFrameDecoder `self` of CeltFrameDecoder::decode

packetVars == <<toc_byte, toc_out, packet, pc, toc, datas, frames, result>>

entropyVars == <<bytes, forward_reader, reverse_reader, coded_value,
                 range_less1, consumed_bits, bitstream_length, status, last,
                 n_ops, fwd_pos, rev_pos, celt>>

vars == <<packetVars, entropyVars>>

\* CeltFrameDecoder::default(), for the fields the model follows
\* (arrays over the 21 bands are functions on 0 .. 20; blocks is kept as the
\* energies of its two blocks, in units of 1/32768)
CeltFrameDecoderDefault ==
    [band_range |-> [start |-> 0, end |-> 0],
     size |-> 0,
     silence |-> FALSE,
     transient |-> FALSE,
     channels |-> 1,
     energy |-> [channel \in 0 .. 1 |-> [i \in 0 .. 20 |-> 0]],
     time_frequency_change |-> [i \in 0 .. 20 |-> 0],
     spread |-> "None",
     caps |-> [i \in 0 .. 20 |-> 0],
     alloc_trim |-> 0,
     anticollapse_needed |-> 0]

\* the entropy decoder's variables while no decoder has been constructed
EntropyIdle ==
    /\ bytes = << >>
    /\ forward_reader = [index |-> 0, left |-> 0]
    /\ reverse_reader = [index |-> 0, left |-> 0]
    /\ coded_value = 0
    /\ range_less1 = 0
    /\ consumed_bits = 0
    /\ bitstream_length = 0
    /\ status = "idle"
    /\ last = [op |-> "none"]
    /\ n_ops = 0
    /\ fwd_pos = 0
    /\ rev_pos = 0
    /\ celt = CeltFrameDecoderDefault

-----------------------------------------------------------------------------
(* Machine arithmetic on unsigned integers.                                *)

RECURSIVE BitAnd(_, _)
BitAnd(a, b) ==
    IF a = 0 \/ b = 0 THEN 0
    ELSE (a % 2) * (b % 2) + 2 * BitAnd(a \div 2, b \div 2)

Pow2(n) == 2 ^ n

Shr(a, n) == a \div Pow2(n)

-----------------------------------------------------------------------------
(* src/src/opus/toc.rs                                                     *)

\* FrameDuration discriminants (samples at 48 kHz)
FrameDurationValue ==
    [VeryShort |-> 120, Short |-> 240, Medium |-> 480,
     Standard |-> 960, Long |-> 1920, VeryLong |-> 2880]

\* Bandwidth discriminants (Hz)
BandwidthValue ==
    [Narrow |-> 8000, Medium |-> 12000, Wide |-> 16000,
     SuperWide |-> 24000, Full |-> 48000]

\* `match toc & 0b00000011`
TocFrameCode(b) ==
    CASE BitAnd(b, 3) = 0 -> "Single"
      [] BitAnd(b, 3) = 1 -> "DoubleCBR"
      [] BitAnd(b, 3) = 2 -> "DoubleVBR"
      [] BitAnd(b, 3) = 3 -> "Multiple"

\* The 32 arms of `match (toc >> 3) & 0b0001_1111`, arm k at index k + 1.
TocConfigArms ==
    << <<"SILK",   "Narrow",    "Medium">>,
       <<"SILK",   "Narrow",    "Standard">>,
       <<"SILK",   "Narrow",    "Long">>,
       <<"SILK",   "Narrow",    "VeryLong">>,
       <<"SILK",   "Medium",    "Medium">>,
       <<"SILK",   "Medium",    "Standard">>,
       <<"SILK",   "Medium",    "Long">>,
       <<"SILK",   "Medium",    "VeryLong">>,
       <<"SILK",   "Wide",      "Medium">>,
       <<"SILK",   "Wide",      "Standard">>,
       <<"SILK",   "Wide",      "Long">>,
       <<"SILK",   "Wide",      "VeryLong">>,
       <<"Hybrid", "SuperWide", "Medium">>,
       <<"Hybrid", "SuperWide", "Standard">>,
       <<"Hybrid", "Full",      "Medium">>,
       <<"Hybrid", "Full",      "Standard">>,
       <<"CELT",   "Narrow",    "VeryShort">>,
       <<"CELT",   "Narrow",    "Short">>,
       <<"CELT",   "Narrow",    "Medium">>,
       <<"CELT",   "Narrow",    "Standard">>,
       <<"CELT",   "Wide",      "VeryShort">>,
       <<"CELT",   "Wide",      "Short">>,
       <<"CELT",   "Wide",      "Medium">>,
       <<"CELT",   "Wide",      "Standard">>,
       <<"CELT",   "SuperWide", "VeryShort">>,
       <<"CELT",   "SuperWide", "Short">>,
       <<"CELT",   "SuperWide", "Medium">>,
       <<"CELT",   "SuperWide", "Standard">>,
       <<"CELT",   "Full",      "VeryShort">>,
       <<"CELT",   "Full",      "Short">>,
       <<"CELT",   "Full",      "Medium">>,
       <<"CELT",   "Full",      "Standard">> >>

\* A plausible slip: the config taken one bit too low, `(toc >> 2) & 0x1F`.
TocConfigShiftedByTwo(b) == BitAnd(Shr(b, 2), 31)

\* `(toc >> 3) & 0b0001_1111`
TocConfig(b) == BitAnd(Shr(b, 3), 31)

\* TableOfContents::decode.  The struct has exactly the four fields
\* mode, bandwidth, duration and code.
TableOfContentsDecode(b) ==
    LET arm == TocConfigArms[TocConfig(b) + 1]
    IN  [mode      |-> arm[1],
         bandwidth |-> arm[2],
         duration  |-> arm[3],
         code      |-> TocFrameCode(b)]

NoToc == [mode |-> "none"]

-----------------------------------------------------------------------------
(* Packets.  A packet is its explicit leading bytes `head` (the TOC byte   *)
(* first) followed by copies of the byte `fill` up to `len` bytes in all.  *)

MAX_FRAME_LEN == 1275
MAX_FRAMES == 48
\* u32::MAX >> 8: u32::MAX - 255 is U32_MAX_SHR8 * 256, kept in two parts
\* because TLC's integers are 32-bit signed
U32_MAX_SHR8 == 16777215

\* number of explicit bytes after the TOC byte
MaxHead == 3
\* short tails: 0 .. MaxBody fill bytes
MaxBody == 3

\* CELT/Full/20ms with each frame code, SILK Single, Hybrid Multiple
PacketTocs == {248, 249, 250, 251, 0, 99}

\* first byte after the TOC: a size byte or a frame-count byte
\*   0x00 M=0 | 0x01,0x02 CBR | 0x31 CBR M=49 | 0x41 CBR+pad M=1
\*   0x82,0x83 VBR M=2,3 | 0xB0 VBR M=48 | 0xC2 VBR+pad M=2 | 252,255 long sizes
FirstBytes == {0, 1, 2, 49, 65, 130, 131, 176, 194, 252, 255}
\* later explicit bytes: sizes and padding lengths
NextBytes == {0, 1, 2, 252, 255}
FillBytes == {0, 1}

\* long tails, so that a frame can exceed MAX_FRAME_LEN
BodyLens == (0 .. MaxBody) \cup {MAX_FRAME_LEN, 2 * MAX_FRAME_LEN}

HeadSeqs ==
    {<< >>} \cup
    UNION { { <<f>> \o t : f \in FirstBytes, t \in [1 .. k -> NextBytes] }
            : k \in 0 .. (MaxHead - 1) }

EmptyPacket == [head |-> << >>, fill |-> 0, len |-> 0]

\* the packet of the demuxer's worked example: Multiple, flag 0x83,
\* sizes 251 and 300 (252, 12), then data
FixturePackets ==
    { [head |-> <<251, 131, 251, 252, 12>>, fill |-> f, len |-> 5 + n]
        : f \in FillBytes, n \in {551, 600, MAX_FRAME_LEN + 552} }

Packets ==
    { [head |-> <<t>> \o h, fill |-> f, len |-> 1 + Len(h) + n]
        : t \in PacketTocs, h \in HeadSeqs, f \in FillBytes, n \in BodyLens }
    \cup {EmptyPacket} \cup FixturePackets

\* byte i (counted from 0) of packet p
PacketByte(p, i) == IF i < Len(p.head) THEN p.head[i + 1] ELSE p.fill

\* the sub-slice &packet[off .. off + len]
Slice(off, len) == [off |-> off, len |-> len]

-----------------------------------------------------------------------------
(* src/src/opus/mod.rs.  The cursor `bytes` is the slice [pos, end) of the *)
(* packet.  Buf::get_u8 and Buf::advance panic when the slice is too       *)
(* short, as does slicing out of range.                                    *)

Panicked == [ok |-> FALSE]

\* read_variable_length
ReadVariableLength(p, pos, end) ==
    IF pos >= end THEN Panicked
    ELSE LET b0 == PacketByte(p, pos)
         IN  IF b0 >= 252
             THEN IF pos + 1 >= end THEN Panicked
                  ELSE [ok |-> TRUE, len |-> b0 + 4 * PacketByte(p, pos + 1),
                        pos |-> pos + 2]
             ELSE [ok |-> TRUE, len |-> b0, pos |-> pos + 1]

\* OpusFrame::deocde: only a CELT frame returns; the SILK and Hybrid paths
\* end in todo!() whichever way the redundancy test goes.
OpusFrameDecode(t, data) ==
    IF t.mode = "CELT" THEN "Ok" ELSE "Todo"

Continue(ds) == [res |-> "Continue", datas |-> ds]
Stop(r) == [res |-> r, datas |-> << >>]

\* FrameCode::Single arm
DemuxSingle(p) ==
    LET pos == 1
        end == p.len
        rem == end - pos
    IN  Continue(IF rem <= MAX_FRAME_LEN THEN <<Slice(pos, rem)>> ELSE << >>)

\* FrameCode::DoubleCBR arm
DemuxDoubleCBR(p) ==
    LET pos == 1
        end == p.len
        rem == end - pos
        half == rem \div 2
    IN  IF BitAnd(rem, 1) # 1 THEN Stop("InvalidData")
        ELSE Continue(IF half <= MAX_FRAME_LEN
                      THEN <<Slice(pos, half), Slice(pos + half, rem - half)>>
                      ELSE << >>)

\* FrameCode::DoubleVBR arm
DemuxDoubleVBR(p) ==
    LET end == p.len
        r == ReadVariableLength(p, 1, end)
    IN  IF ~r.ok THEN Stop("Panic")
        ELSE IF r.len > MAX_FRAME_LEN THEN Stop("InvalidData")
        ELSE IF r.len > 0
             THEN IF r.len > end - r.pos THEN Stop("Panic")
                  ELSE Continue(<<Slice(r.pos, r.len),
                                  Slice(r.pos + r.len, end - r.pos - r.len)>>)
             ELSE Continue(<< >>)

\* `byte > u32::MAX as usize - 255`
ExceedsPaddingGuard(byte) ==
    \/ byte \div 256 > U32_MAX_SHR8
    \/ (byte \div 256 = U32_MAX_SHR8 /\ byte % 256 > 0)

\* the padding loop of the Multiple arm
RECURSIVE PaddingChain(_, _, _, _)
PaddingChain(p, pos, end, padding_len) ==
    IF pos >= end THEN Panicked
    ELSE LET byte == PacketByte(p, pos)
         IN  IF ExceedsPaddingGuard(byte)
             THEN [ok |-> TRUE, invalid |-> TRUE, len |-> 0, pos |-> pos]
             ELSE IF byte < 255
                  THEN [ok |-> TRUE, invalid |-> FALSE,
                        len |-> padding_len + byte, pos |-> pos + 1]
                  ELSE PaddingChain(p, pos + 1, end, padding_len + byte - 1)

\* `for _ in 0..frame_count { read_variable_length; if len > 0 { push } }`
RECURSIVE ReadSizes(_, _, _, _, _)
ReadSizes(p, pos, end, n, sizes) ==
    IF n = 0 THEN [ok |-> TRUE, sizes |-> sizes, pos |-> pos]
    ELSE LET r == ReadVariableLength(p, pos, end)
         IN  IF ~r.ok THEN Panicked
             ELSE ReadSizes(p, r.pos, end, n - 1,
                            IF r.len > 0 THEN Append(sizes, r.len) ELSE sizes)

\* `for len in sizes { if len <= MAX { push(&bytes[..len]) }; advance(len) }`
RECURSIVE TakeSized(_, _, _, _)
TakeSized(sizes, pos, end, out) ==
    IF sizes = << >> THEN [ok |-> TRUE, datas |-> out, pos |-> pos]
    ELSE LET len == Head(sizes)
         IN  IF len > end - pos THEN Panicked
             ELSE TakeSized(Tail(sizes), pos + len, end,
                            IF len <= MAX_FRAME_LEN
                            THEN Append(out, Slice(pos, len)) ELSE out)

\* the VBR branch of the Multiple arm
DemuxVBR(p, pos, end, frame_count) ==
    LET rs == ReadSizes(p, pos, end, frame_count, << >>)
    IN  IF ~rs.ok THEN Stop("Panic")
        ELSE LET ts == TakeSized(rs.sizes, rs.pos, end, << >>)
             IN  IF ~ts.ok THEN Stop("Panic")
                 ELSE Continue(IF end - ts.pos <= MAX_FRAME_LEN
                               THEN Append(ts.datas, Slice(ts.pos, end - ts.pos))
                               ELSE ts.datas)

\* the CBR branch of the Multiple arm
DemuxCBR(p, pos, end, frame_count) ==
    LET len == (end - pos) \div frame_count
    IN  Continue([k \in 1 .. frame_count |-> Slice(pos + (k - 1) * len, len)])

\* `(flag & 0x40) == 1`
HasPadding(flag) == BitAnd(flag, 64) = 1

\* `(flag & 0x80) != 0`
IsVbr(flag) == BitAnd(flag, 128) # 0

\* `flag & 0x3F`
FrameCount(flag) == BitAnd(flag, 63)

\* the frame split after the frame-count byte and the padding
DemuxSplit(p, flag, pos, end) ==
    IF IsVbr(flag) THEN DemuxVBR(p, pos, end, FrameCount(flag))
    ELSE DemuxCBR(p, pos, end, FrameCount(flag))

\* FrameCode::Multiple arm
DemuxMultiple(p) ==
    LET end == p.len
    IN  IF 1 >= end THEN Stop("Panic")
        ELSE LET flag == PacketByte(p, 1)
                 frame_count == FrameCount(flag)
             IN  IF frame_count = 0 \/ frame_count > MAX_FRAMES
                 THEN Stop("FramesOverflow")
                 ELSE IF HasPadding(flag)
                      THEN LET pad == PaddingChain(p, 2, end, 0)
                           IN  IF ~pad.ok THEN Stop("Panic")
                               ELSE IF pad.invalid THEN Stop("InvalidData")
                               ELSE IF pad.len > end - pad.pos THEN Stop("Panic")
                               ELSE DemuxSplit(p, flag, pad.pos, end - pad.len)
                      ELSE DemuxSplit(p, flag, 2, end)

-----------------------------------------------------------------------------
(* OpusPacket::decode as a state machine.                                  *)

Init ==
    /\ toc_byte = 0
    /\ toc_out = NoToc
    /\ packet \in Packets
    /\ pc = "start"
    /\ toc = NoToc
    /\ datas = << >>
    /\ frames = << >>
    /\ result = "none"
    /\ EntropyIdle

\* the length check and `TableOfContents::from(bytes.get_u8())`; toc.rs has
\* no other conversion from a byte than TableOfContents::decode
DecodeToc ==
    /\ pc = "start"
    /\ IF packet.len < 1
       THEN /\ result' = "InvalidData"
            /\ pc' = "done"
            /\ toc' = toc
       ELSE /\ toc' = TableOfContentsDecode(PacketByte(packet, 0))
            /\ pc' = "match"
            /\ result' = result
    /\ UNCHANGED <<toc_byte, toc_out, packet, datas, frames>>
    /\ UNCHANGED entropyVars

\* how an arm of `match toc.code` leaves the call: on to the frame loop
\* with the payloads it pushed, or out with an error or a panic
EndArm(d) ==
    /\ IF d.res = "Continue"
       THEN /\ datas' = d.datas
            /\ pc' = "frames"
            /\ result' = result
       ELSE /\ datas' = datas
            /\ pc' = "done"
            /\ result' = d.res
    /\ UNCHANGED <<toc_byte, toc_out, packet, toc, frames>>
    /\ UNCHANGED entropyVars

Single ==
    /\ pc = "match"
    /\ toc.code = "Single"
    /\ EndArm(DemuxSingle(packet))

DoubleCBR ==
    /\ pc = "match"
    /\ toc.code = "DoubleCBR"
    /\ EndArm(DemuxDoubleCBR(packet))

DoubleVBR ==
    /\ pc = "match"
    /\ toc.code = "DoubleVBR"
    /\ EndArm(DemuxDoubleVBR(packet))

Multiple ==
    /\ pc = "match"
    /\ toc.code = "Multiple"
    /\ EndArm(DemuxMultiple(packet))

\* one iteration of `for data in datas { frames.push(OpusFrame::deocde(..)?) }`
DecodeFrame ==
    /\ pc = "frames"
    /\ Len(frames) < Len(datas)
    /\ LET r == OpusFrameDecode(toc, datas[Len(frames) + 1])
       IN  IF r = "Ok"
           THEN /\ frames' = Append(frames, "OpusFrame")
                /\ pc' = pc
                /\ result' = result
           ELSE /\ frames' = frames
                /\ pc' = "done"
                /\ result' = r
    /\ UNCHANGED <<toc_byte, toc_out, packet, toc, datas>>
    /\ UNCHANGED entropyVars

\* `Ok(Self { toc, frames })`
Return ==
    /\ pc = "frames"
    /\ Len(frames) = Len(datas)
    /\ result' = "Ok"
    /\ pc' = "done"
    /\ UNCHANGED <<toc_byte, toc_out, packet, toc, datas, frames>>
    /\ UNCHANGED entropyVars

Next ==
    \/ DecodeToc
    \/ Single
    \/ DoubleCBR
    \/ DoubleVBR
    \/ Multiple
    \/ DecodeFrame
    \/ Return

Spec == Init /\ [][Next]_vars

-----------------------------------------------------------------------------
(* TableOfContents::decode applied to every byte value.                    *)

TocInit ==
    /\ toc_byte \in 0 .. 255
    /\ toc_out = NoToc
    /\ packet = EmptyPacket
    /\ pc = "idle"
    /\ toc = NoToc
    /\ datas = << >>
    /\ frames = << >>
    /\ result = "none"
    /\ EntropyIdle

TocDecode ==
    /\ pc = "idle"
    /\ toc_out = NoToc
    /\ toc_out' = TableOfContentsDecode(toc_byte)
    /\ UNCHANGED <<toc_byte, packet, pc, toc, datas, frames, result>>
    /\ UNCHANGED entropyVars

TocNext == TocDecode

TocSpec == TocInit /\ [][TocNext]_vars

-----------------------------------------------------------------------------
(* Properties of the packet demuxer.                                       *)

\* the arm of `match toc.code` for `code` has run on this packet
ArmRan(code) ==
    /\ toc # NoToc
    /\ toc.code = code
    /\ pc \in {"frames", "done"}

\* the arm ended the call with an error value
Rejected == pc = "done" /\ result \in {"InvalidData", "FramesOverflow"}

\* bytes after the TOC byte
Remainder == packet.len - 1

\* C1: whenever OpusPacket::decode returns Ok, the packet holds between 1
\* and 48 frames and every frame payload is at most 1275 bytes long.
C1_FrameLimits ==
    result = "Ok" =>
        /\ Len(frames) >= 1
        /\ Len(frames) <= MAX_FRAMES
        /\ \A i \in 1 .. Len(datas) : datas[i].len <= MAX_FRAME_LEN

\* the size fields of a Multiple/VBR packet as the framing rule reads them:
\* n fields from pos on
RECURSIVE DeclaredSizes(_, _, _, _)
DeclaredSizes(p, pos, end, n) ==
    IF n = 0 THEN [ok |-> TRUE, sizes |-> << >>, pos |-> pos]
    ELSE LET r == ReadVariableLength(p, pos, end)
         IN  IF ~r.ok THEN Panicked
             ELSE LET rest == DeclaredSizes(p, r.pos, end, n - 1)
                  IN  IF ~rest.ok THEN Panicked
                      ELSE [ok |-> TRUE, sizes |-> <<r.len>> \o rest.sizes,
                            pos |-> rest.pos]

RECURSIVE SumSeq(_)
SumSeq(q) == IF q = << >> THEN 0 ELSE Head(q) + SumSeq(Tail(q))

\* consecutive slices of the given lengths from pos on, then the rest
\* up to end
RECURSIVE FramesOfSizes(_, _, _)
FramesOfSizes(sizes, pos, end) ==
    IF sizes = << >> THEN <<Slice(pos, end - pos)>>
    ELSE <<Slice(pos, Head(sizes))>> \o
         FramesOfSizes(Tail(sizes), pos + Head(sizes), end)

\* the packet is Multiple with frame-count byte `flag`
MultipleFlag == PacketByte(packet, 1)

\* C2: a Multiple packet with the VBR bit set and frame count M has M-1
\* size fields and yields M frames in order: the first M-1 of their declared
\* lengths (0 giving an empty frame), the last one the remainder.
C2_VbrReadsMMinusOneSizes ==
    ( /\ ArmRan("Multiple")
      /\ packet.len >= 2
      /\ IsVbr(MultipleFlag)
      /\ BitAnd(MultipleFlag, 64) = 0
      /\ FrameCount(MultipleFlag) \in 1 .. MAX_FRAMES
      /\ LET ds == DeclaredSizes(packet, 2, packet.len, FrameCount(MultipleFlag) - 1)
         IN  /\ ds.ok
             /\ SumSeq(ds.sizes) <= packet.len - ds.pos
             /\ packet.len - ds.pos - SumSeq(ds.sizes) <= MAX_FRAME_LEN )
    => LET ds == DeclaredSizes(packet, 2, packet.len, FrameCount(MultipleFlag) - 1)
       IN  /\ ~Rejected
           /\ result # "Panic"
           /\ Len(datas) = FrameCount(MultipleFlag)
           /\ datas = FramesOfSizes(ds.sizes, ds.pos, packet.len)

\* C3: a DoubleCBR packet with an odd remainder is rejected with
\* InvalidData; an even remainder 2h with h <= 1275 gives exactly two frames
\* of h bytes; h > 1275 is rejected.
C3_DoubleCbrSplit ==
    ArmRan("DoubleCBR") =>
        LET h == Remainder \div 2
        IN  IF Remainder % 2 = 1
            THEN pc = "done" /\ result = "InvalidData"
            ELSE IF h <= MAX_FRAME_LEN
                 THEN /\ ~Rejected
                      /\ datas = <<Slice(1, h), Slice(1 + h, h)>>
                 ELSE Rejected

\* C4: a Single packet's remainder is the one frame when it is at most 1275
\* bytes long, and the packet is rejected with an error when it is longer.
C4_SingleFrame ==
    ArmRan("Single") =>
        IF Remainder <= MAX_FRAME_LEN
        THEN ~Rejected /\ datas = <<Slice(1, Remainder)>>
        ELSE Rejected

\* the first-frame size field of a DoubleVBR packet
DoubleVbrSize == ReadVariableLength(packet, 1, packet.len)

\* C5: a DoubleVBR packet whose first-frame length L1 fits in the bytes
\* after the size field yields exactly two frames: the next L1 bytes (an
\* empty frame when L1 = 0) and all the remaining bytes.
C5_DoubleVbrTwoFrames ==
    ( /\ ArmRan("DoubleVBR")
      /\ DoubleVbrSize.ok
      /\ DoubleVbrSize.len <= packet.len - DoubleVbrSize.pos
      /\ packet.len - DoubleVbrSize.pos - DoubleVbrSize.len <= MAX_FRAME_LEN )
    => LET r == DoubleVbrSize
       IN  /\ ~Rejected
           /\ result # "Panic"
           /\ datas = <<Slice(r.pos, r.len),
                        Slice(r.pos + r.len, packet.len - r.pos - r.len)>>

\* the padding-length chain that follows the frame-count byte
DeclaredPadding == PaddingChain(packet, 2, packet.len, 0)

\* C6: when the frame-count byte of a Multiple packet has the padding bit
\* 0x40 set, the padding-length chain is consumed and that many trailing
\* bytes are excluded from every frame payload.
C6_PaddingStripped ==
    ( /\ ArmRan("Multiple")
      /\ packet.len >= 2
      /\ BitAnd(MultipleFlag, 64) = 64
      /\ FrameCount(MultipleFlag) \in 1 .. MAX_FRAMES
      /\ DeclaredPadding.ok
      /\ DeclaredPadding.len <= packet.len - DeclaredPadding.pos
      /\ result # "Panic" )
    => \A i \in 1 .. Len(datas) :
           /\ datas[i].off >= DeclaredPadding.pos
           /\ datas[i].off + datas[i].len <= packet.len - DeclaredPadding.len

\* C7: a Multiple packet with the VBR bit clear and frame count M is split
\* into M frames of equal length when the remainder is divisible by M and is
\* rejected with InvalidData when it is not.
C7_CbrDivisible ==
    ( /\ ArmRan("Multiple")
      /\ packet.len >= 2
      /\ ~IsVbr(MultipleFlag)
      /\ BitAnd(MultipleFlag, 64) = 0
      /\ FrameCount(MultipleFlag) \in 1 .. MAX_FRAMES )
    => LET M == FrameCount(MultipleFlag)
           rem == packet.len - 2
       IN  IF rem % M = 0
           THEN /\ ~Rejected
                /\ datas = [k \in 1 .. M |->
                               Slice(2 + (k - 1) * (rem \div M), rem \div M)]
           ELSE pc = "done" /\ result = "InvalidData"

\* a size field or a header byte the packet is too short for
ShortPacket ==
    \/ /\ ArmRan("DoubleVBR")
       /\ \/ ~DoubleVbrSize.ok
          \/ DoubleVbrSize.len > packet.len - DoubleVbrSize.pos
    \/ /\ ArmRan("Multiple")
       /\ packet.len < 2

\* C8: a size field that declares more bytes than remain, or a missing
\* header byte, makes OpusPacket::decode return Err(InvalidData); the call
\* never aborts on an out-of-range slice or on a read from an empty buffer.
C8_ShortPacketIsInvalidData ==
    /\ result # "Panic"
    /\ ShortPacket => (pc = "done" /\ result = "InvalidData")

-----------------------------------------------------------------------------
(* Properties of the TOC parser.  The table of RFC 6716, section 3.1, is   *)
(* written here by config ranges, independently of the 32 arms above.      *)

RfcMode(c) ==
    IF c <= 11 THEN "SILK" ELSE IF c <= 15 THEN "Hybrid" ELSE "CELT"

RfcBandwidth(c) ==
    IF c <= 3 THEN "Narrow"
    ELSE IF c <= 7 THEN "Medium"
    ELSE IF c <= 11 THEN "Wide"
    ELSE IF c <= 13 THEN "SuperWide"
    ELSE IF c <= 15 THEN "Full"
    ELSE IF c <= 19 THEN "Narrow"
    ELSE IF c <= 23 THEN "Wide"
    ELSE IF c <= 27 THEN "SuperWide"
    ELSE "Full"

\* frame duration in samples at 48 kHz (10 ms = 480 samples)
RfcDurationSamples(c) ==
    IF c <= 11 THEN <<480, 960, 1920, 2880>>[(c % 4) + 1]
    ELSE IF c <= 15 THEN <<480, 960>>[(c % 2) + 1]
    ELSE <<120, 240, 480, 960>>[(c % 4) + 1]

RfcFrameCode(k) == <<"Single", "DoubleCBR", "DoubleVBR", "Multiple">>[k + 1]

\* C9: TableOfContents::decode gives, for every byte, the mode, bandwidth
\* and duration of the RFC 6716 row selected by the top five bits and the
\* frame code selected by bits 0-1; 0x00 is SILK, Narrow, 10 ms, Single.
C9_TocTable ==
    toc_out # NoToc =>
        LET c == toc_byte \div 8
        IN  /\ DOMAIN toc_out = {"mode", "bandwidth", "duration", "code"}
            /\ toc_out.mode = RfcMode(c)
            /\ toc_out.bandwidth = RfcBandwidth(c)
            /\ FrameDurationValue[toc_out.duration] = RfcDurationSamples(c)
            /\ toc_out.code = RfcFrameCode(toc_byte % 4)
            /\ toc_byte = 0 =>
                   toc_out = [mode |-> "SILK", bandwidth |-> "Narrow",
                              duration |-> "Medium", code |-> "Single"]

\* a Hybrid row with its second duration has been decoded
C9_Witness ==
    /\ toc_byte = 107
    /\ toc_out # NoToc
    /\ toc_out.mode = "Hybrid"
    /\ toc_out.duration = "Standard"
    /\ toc_out.code = "Multiple"

\* C10: the decoded TOC carries a channel count taken from bit 2 of the
\* byte: Mono when the bit is 0, Stereo when it is 1.
C10_TocChannels ==
    toc_out # NoToc =>
        /\ "channels" \in DOMAIN toc_out
        /\ toc_out.channels =
               (IF BitAnd(toc_byte, 4) = 4 THEN "Stereo" ELSE "Mono")

-----------------------------------------------------------------------------
(* src/src/opus/entropy/bits.rs.  A u64 cache is kept as its 64 bits, most *)
(* significant first, because TLC's integers are 32 bits wide.             *)

Zeros(n) == [i \in 1 .. n |-> 0]

\* the bits of a byte string, each byte most significant bit first
BytesBits(s) ==
    [i \in 1 .. 8 * Len(s) |-> (s[(i - 1) \div 8 + 1] \div Pow2(7 - ((i - 1) % 8))) % 2]

\* the unsigned integer written by a bit string, most significant bit first
RECURSIVE BitsValue(_)
BitsValue(b) ==
    IF Len(b) = 0 THEN 0
    ELSE 2 * BitsValue(SubSeq(b, 1, Len(b) - 1)) + b[Len(b)]

\* A plausible slip: a left shift that fills with ones.
U64ShlOnes(c, k) == [i \in 1 .. 64 |-> IF i + k <= 64 THEN c[i + k] ELSE 1]

U64Shl(c, k) == [i \in 1 .. 64 |-> IF i + k <= 64 THEN c[i + k] ELSE 0]

U64Shr(c, k) == [i \in 1 .. 64 |-> IF i - k >= 1 THEN c[i - k] ELSE 0]

U64Or(a, b) == [i \in 1 .. 64 |-> IF a[i] = 1 \/ b[i] = 1 THEN 1 ELSE 0]

Min(a, b) == IF a < b THEN a ELSE b

SaturatingSub(a, b) == IF a > b THEN a - b ELSE 0

\* BigEndianBitReader::readable
BigEndianReadable(buf, r) == r.index < Len(buf)

\* A plausible slip: a short read left right-aligned, its final shift forgotten.
BigEndianReadUnshifted(buf, index, count) ==
    LET end == Min(Len(buf), index + count)
        got == BytesBits(SubSeq(buf, index + 1, end))
    IN  Zeros(64 - Len(got)) \o got

\* BigEndianBitReader::read::<T> with count = size_of::<T>(): the bytes
\* [index, end) accumulated big-endian, then shifted left so that a short
\* read is padded with zero bytes on the right
BigEndianRead(buf, index, count) ==
    LET end == Min(Len(buf), index + count)
        got == BytesBits(SubSeq(buf, index + 1, end))
    IN  Zeros(64 - 8 * count) \o got \o Zeros(8 * (count - (end - index)))

\* BigEndianBitReader::new
BigEndianNew(buf) ==
    LET this == [index |-> 0, cache |-> Zeros(64), left |-> 0]
    IN  IF BigEndianReadable(buf, this)
        THEN [index |-> 8, cache |-> BigEndianRead(buf, 0, 8), left |-> 64]
        ELSE this

\* BigEndianBitReader::get_bits_32: the reader afterwards and the value
\* returned.  `32 - self.left` is a usize subtraction: ok is FALSE where it
\* would underflow.
BigEndianGetBits32(buf, r, n) ==
    IF n = 0 THEN [reader |-> r, value |-> 0, ok |-> TRUE]
    ELSE LET refill == r.left <= n /\ BigEndianReadable(buf, r)
             ok == ~(refill /\ r.left > 32)
             r1 == IF refill /\ ok
                   THEN [index |-> r.index + 4,
                         cache |-> U64Or(r.cache,
                                         U64Shl(BigEndianRead(buf, r.index, 4),
                                                32 - r.left)),
                         left  |-> r.left + 32]
                   ELSE r
         IN  [reader |-> [index |-> r1.index,
                          cache |-> U64Shl(r1.cache, n),
                          left  |-> SaturatingSub(r1.left, n)],
              value  |-> BitsValue(SubSeq(r1.cache, 1, n)),
              ok     |-> ok]

\* LittleEndianBitReader::readable
LittleEndianReadable(buf, r) == r.index <= Len(buf)

\* A plausible slip: the bytes taken from the front of the buffer.
LittleEndianReadForward(buf, index, count) ==
    LET got == BytesBits(SubSeq(buf, index + 1, Min(Len(buf), index + count)))
    IN  Zeros(64 - Len(got)) \o got

\* LittleEndianBitReader::read::<T>: the bytes [start, end) counted back
\* from the end of the buffer, accumulated big-endian
LittleEndianRead(buf, index, count) ==
    LET end == Len(buf) - index
        start == SaturatingSub(end, count)
        got == BytesBits(SubSeq(buf, start + 1, end))
    IN  Zeros(64 - Len(got)) \o got

\* LittleEndianBitReader::new
LittleEndianNew(buf) ==
    LET this == [index |-> 0, cache |-> Zeros(64), left |-> 0]
    IN  IF LittleEndianReadable(buf, this)
        THEN [index |-> 8, cache |-> LittleEndianRead(buf, 0, 8), left |-> 64]
        ELSE this

\* LittleEndianBitReader::get_bits_32
LittleEndianGetBits32(buf, r, n) ==
    IF n = 0 THEN [reader |-> r, value |-> 0, ok |-> TRUE]
    ELSE LET refill == r.left <= n /\ LittleEndianReadable(buf, r)
             r1 == IF refill
                   THEN [index |-> r.index + 4,
                         cache |-> U64Or(r.cache,
                                         U64Shl(LittleEndianRead(buf, r.index, 4),
                                                r.left)),
                         left  |-> r.left + 32]
                   ELSE r
         IN  [reader |-> [index |-> r1.index,
                          cache |-> U64Shr(r1.cache, n),
                          left  |-> SaturatingSub(r1.left, n)],
              value  |-> BitsValue(SubSeq(r1.cache, 65 - n, 64)),
              ok     |-> TRUE]

-----------------------------------------------------------------------------
(* The two bit readers over one buffer, read in any interleaving.          *)

MaxBufLen == 12
MaxReads == 4

\* buffers of every length up to MaxBufLen, filled by an arithmetic pattern
PatternBuffer(a, d, n) == [k \in 1 .. n |-> (a + d * (k - 1)) % 256]

BufferPatterns == {<<214, 87>>, <<105, 151>>}

Buffers == {PatternBuffer(f[1], f[2], n) : f \in BufferPatterns, n \in 0 .. MaxBufLen}

ForwardSizes == {0, 1, 8, 25}
ReverseSizes == {1, 8, 25}

\* the decoder's own fields while only its two readers are exercised
DecoderIdle ==
    /\ coded_value = 0
    /\ range_less1 = 0
    /\ consumed_bits = 0
    /\ bitstream_length = 0
    /\ celt = CeltFrameDecoderDefault

PacketIdle ==
    /\ toc_byte = 0
    /\ toc_out = NoToc
    /\ packet = EmptyPacket
    /\ pc = "idle"
    /\ toc = NoToc
    /\ datas = << >>
    /\ frames = << >>
    /\ result = "none"

BitsInit ==
    /\ PacketIdle
    /\ DecoderIdle
    /\ bytes \in Buffers
    /\ forward_reader = BigEndianNew(bytes)
    /\ reverse_reader = LittleEndianNew(bytes)
    /\ status = "ok"
    /\ last = [op |-> "none"]
    /\ n_ops = 0
    /\ fwd_pos = 0
    /\ rev_pos = 0

\* one call forward_reader.get_bits_32(n)
ForwardGetBits ==
    /\ status = "ok"
    /\ n_ops < MaxReads
    /\ \E n \in ForwardSizes :
          LET g == BigEndianGetBits32(bytes, forward_reader, n)
          IN  /\ forward_reader' = g.reader
              /\ status' = IF g.ok THEN "ok" ELSE "panic"
              /\ last' = [op |-> "forward", n |-> n, pos |-> fwd_pos,
                          value |-> g.value]
              /\ fwd_pos' = fwd_pos + n
    /\ n_ops' = n_ops + 1
    /\ UNCHANGED <<bytes, reverse_reader, rev_pos>>
    /\ UNCHANGED <<coded_value, range_less1, consumed_bits, bitstream_length, celt>>
    /\ UNCHANGED packetVars

\* one call reverse_reader.get_bits_32(n)
ReverseGetBits ==
    /\ status = "ok"
    /\ n_ops < MaxReads
    /\ \E n \in ReverseSizes :
          LET g == LittleEndianGetBits32(bytes, reverse_reader, n)
          IN  /\ reverse_reader' = g.reader
              /\ status' = IF g.ok THEN "ok" ELSE "panic"
              /\ last' = [op |-> "reverse", n |-> n, pos |-> rev_pos,
                          value |-> g.value]
              /\ rev_pos' = rev_pos + n
    /\ n_ops' = n_ops + 1
    /\ UNCHANGED <<bytes, forward_reader, fwd_pos>>
    /\ UNCHANGED <<coded_value, range_less1, consumed_bits, bitstream_length, celt>>
    /\ UNCHANGED packetVars

BitsNext ==
    \/ ForwardGetBits
    \/ ReverseGetBits

BitsSpec == BitsInit /\ [][BitsNext]_vars

-----------------------------------------------------------------------------
(* Properties of the bit readers, against the bit strings of the buffer    *)
(* written directly from its bytes.                                        *)

\* bit i (from 0) of the buffer read from its first byte, each byte most
\* significant bit first, and zero past the end
ForwardStreamBit(buf, i) ==
    IF i < 8 * Len(buf) THEN (buf[i \div 8 + 1] \div Pow2(7 - (i % 8))) % 2 ELSE 0

\* bit i (from 0) of the buffer read from the least significant bit of its
\* final byte towards its first byte, and zero past the beginning
ReverseStreamBit(buf, i) ==
    IF i < 8 * Len(buf) THEN (buf[Len(buf) - i \div 8] \div Pow2(i % 8)) % 2 ELSE 0

RECURSIVE ForwardExpected(_, _, _)
ForwardExpected(buf, pos, n) ==
    IF n = 0 THEN 0
    ELSE 2 * ForwardExpected(buf, pos, n - 1) + ForwardStreamBit(buf, pos + n - 1)

RECURSIVE ReverseExpected(_, _, _)
ReverseExpected(buf, pos, n) ==
    IF n = 0 THEN 0
    ELSE ReverseStreamBit(buf, pos) + 2 * ReverseExpected(buf, pos + 1, n - 1)

\* C17: every BigEndianBitReader::get_bits_32(n) with 0 <= n <= 25 completes
\* and returns the next n bits of the buffer's bit string followed by zeros,
\* most significant first, whatever the earlier reads were
C17_ForwardReadsBitString ==
    last.op = "forward" =>
        /\ status = "ok"
        /\ last.value = ForwardExpected(bytes, last.pos, last.n)

\* a forward read that spans the refill of the cache and runs past the end
\* of a buffer of more than eight bytes
C17_Witness ==
    /\ last.op = "forward"
    /\ status = "ok"
    /\ Len(bytes) > 8
    /\ last.pos < 64
    /\ last.pos + last.n > 8 * Len(bytes)
    /\ last.value > 0

\* C18: every LittleEndianBitReader::get_bits_32(n) with 1 <= n <= 25
\* completes and returns the next n bits, earliest bit least significant, of
\* the stream that starts at the least significant bit of the final byte and
\* runs towards the first byte, all zeros after 8 * len bits, whatever the
\* forward reader has taken
C18_ReverseReadsBitString ==
    last.op = "reverse" =>
        /\ status = "ok"
        /\ last.value = ReverseExpected(bytes, last.pos, last.n)

\* a reverse read that spans the refill of the cache and runs past the
\* beginning of a buffer whose bits the forward reader has taken too
C18_Witness ==
    /\ last.op = "reverse"
    /\ status = "ok"
    /\ Len(bytes) > 8
    /\ last.pos < 64
    /\ last.pos + last.n > 8 * Len(bytes)
    /\ last.value > 0
    /\ fwd_pos > 0

-----------------------------------------------------------------------------
(* src/src/opus/entropy/mod.rs.  current_range reaches 2^31, one more than *)
(* TLC's largest integer, so the decoder's range is kept as                *)
(* range_less1 = current_range - 1 and every use of it goes through the    *)
(* operators below.  A decoder is the record `self` of its fields, with    *)
(*   st      : "ok"; "panic" where every build aborts (division by zero,   *)
(*             ilog2(0), unwrap of None); "overflow" where a usize         *)
(*             subtraction underflows, which aborts a debug build and      *)
(*             wraps modulo 2^64 in a release build; "hang" where          *)
(*             ensure_valid_range cannot end;                              *)
(*   fetched : the bytes ensure_valid_range took during the last call.     *)

SYMBOL_BITS == 8
UNIFORM_THRESHOLD_BITS == 8
CODE_MAX_VALUE_LESS1 == 2147483647
CODE_MIN_NORMALIZATION == 8388608

RECURSIVE ILog2(_)
ILog2(x) == IF x <= 1 THEN 0 ELSE 1 + ILog2(x \div 2)

RECURSIVE BitOr(_, _)
BitOr(a, b) ==
    IF a = 0 THEN b
    ELSE IF b = 0 THEN a
    ELSE (IF a % 2 = 1 \/ b % 2 = 1 THEN 1 ELSE 0) + 2 * BitOr(a \div 2, b \div 2)

\* current_range / d and current_range >> p, for d >= 2
RangeDiv(r1, d) == r1 \div d + (IF r1 % d = d - 1 THEN 1 ELSE 0)

\* current_range.ilog2()
RangeILog2(r1) == IF r1 = CODE_MAX_VALUE_LESS1 THEN 31 ELSE ILog2(r1 + 1)

\* A plausible slip: `<` for `<=`, so that a range of exactly 2^23 is kept.
NeedsNormalizationStrict(r1) == r1 < CODE_MIN_NORMALIZATION - 1

\* `self.current_range <= Self::CODE_MIN_NORMALIZATION`
NeedsNormalization(r1) == r1 < CODE_MIN_NORMALIZATION

\* ensure_valid_range: while current_range <= CODE_MIN_NORMALIZATION, shift
\* in one byte of the forward reader, complemented.  (v << 8 | x) & (2^31 - 1)
\* is (v mod 2^23) * 256 + x for x < 256, and byte ^ 255 is 255 - byte.
RECURSIVE EnsureValidRange(_, _)
EnsureValidRange(buf, self) ==
    IF self.range_less1 < 0 THEN [self EXCEPT !.st = "hang"]
    ELSE IF NeedsNormalization(self.range_less1)
    THEN LET g == BigEndianGetBits32(buf, self.forward_reader, SYMBOL_BITS)
         IN  EnsureValidRange(buf,
                 [self EXCEPT
                    !.forward_reader = g.reader,
                    !.coded_value = (self.coded_value % CODE_MIN_NORMALIZATION) * 256
                                    + (255 - g.value),
                    !.range_less1 = self.range_less1 * 256 + 255,
                    !.consumed_bits = self.consumed_bits + SYMBOL_BITS,
                    !.fetched = Append(self.fetched, g.value)])
    ELSE self

\* update_range_and_value.  The three subtractions are on usize:
\* total - high, coded_value - size, and high - low or current_range - size.
\* Where one underflows the fields are left as they were and st says so;
\* range_wraps tells whether the release build's current_range, computed
\* modulo 2^64, is the wrapped image of a negative number.
UpdateRangeAndValue(buf, self, scale, low, high, total) ==
    LET under == \/ high > total
                 \/ scale * (total - high) > self.coded_value
                 \/ IF low # 0 THEN high < low
                    ELSE scale * (total - high) - 1 > self.range_less1
        range_wraps == IF low # 0 THEN high < low /\ scale > 0
                       ELSE high <= total /\ scale * (total - high) - 1 > self.range_less1
    IN  IF under
        THEN [self EXCEPT !.st = "overflow", !.range_wraps = range_wraps]
        ELSE LET size == scale * (total - high)
             IN  EnsureValidRange(buf,
                     [self EXCEPT
                        !.coded_value = self.coded_value - size,
                        !.range_less1 = IF low # 0 THEN scale * (high - low) - 1
                                        ELSE self.range_less1 - size])

\* get_scale_symbol; both divisions abort on a zero divisor
GetScaleSymbol(self, total) ==
    IF total = 0 THEN [ok |-> FALSE]
    ELSE LET range_scale == RangeDiv(self.range_less1, total)
         IN  IF range_scale = 0 THEN [ok |-> FALSE]
             ELSE [ok |-> TRUE, scale |-> range_scale,
                   symbol |-> total - Min(self.coded_value \div range_scale + 1, total)]

\* RangeCodingDecoder::new
RangeCodingDecoderNew(buf) ==
    LET g == BigEndianGetBits32(buf, BigEndianNew(buf), 7)
    IN  EnsureValidRange(buf,
            [forward_reader |-> g.reader,
             reverse_reader |-> LittleEndianNew(buf),
             coded_value |-> 127 - g.value,
             range_less1 |-> 127,
             consumed_bits |-> 9,
             bitstream_length |-> Len(buf) * 8,
             st |-> "ok",
             range_wraps |-> FALSE,
             fetched |-> <<g.value>>])

\* the decoder as a call finds it
Entering(self) == [self EXCEPT !.fetched = << >>]

\* logp
Logp(buf, self0, logp) ==
    LET self == Entering(self0)
        range_scale == RangeDiv(self.range_less1, Pow2(logp))
        taken == range_scale > self.coded_value
    IN  [self |-> EnsureValidRange(buf,
                    IF taken
                    THEN [self EXCEPT !.range_less1 = range_scale - 1]
                    ELSE [self EXCEPT !.range_less1 = self.range_less1 - range_scale,
                                      !.coded_value = self.coded_value - range_scale]),
         ret |-> taken]

\* A plausible slip: `>=` for `>` in the closure.
PositionAtLeast(dist, symbol_index) ==
    LET hits == {i \in 1 .. Len(dist) : dist[i] >= symbol_index}
    IN  IF hits = {} THEN -1
        ELSE (CHOOSE i \in hits : \A j \in hits : i <= j) - 1

\* icdf.dist.iter().position(|v| *v > symbol_index): 0-based, or -1 for None
Position(dist, symbol_index) ==
    LET hits == {i \in 1 .. Len(dist) : dist[i] > symbol_index}
    IN  IF hits = {} THEN -1
        ELSE (CHOOSE i \in hits : \A j \in hits : i <= j) - 1

\* icdf, on the ICDFContext [total, dist]
Icdf(buf, self0, icdf) ==
    LET self == Entering(self0)
        ss == GetScaleSymbol(self, icdf.total)
    IN  IF ~ss.ok THEN [self |-> [self EXCEPT !.st = "panic"], ret |-> 0]
        ELSE LET value == Position(icdf.dist, ss.symbol)
             IN  IF value < 0 THEN [self |-> [self EXCEPT !.st = "panic"], ret |-> 0]
                 ELSE [self |-> UpdateRangeAndValue(buf, self, ss.scale,
                                    IF value > 0 THEN icdf.dist[value] ELSE 0,
                                    icdf.dist[value + 1], icdf.total),
                       ret |-> value]

\* tell as the integer consumed_bits - ilog2(current_range) - 1
Tell(self) == self.consumed_bits - RangeILog2(self.range_less1) - 1

\* (a * b) >> 15 for a, b < 2^30, without a product beyond 2^31
MulShr15(a, b) ==
    LET a1 == a \div 32768
        a0 == a % 32768
        b1 == b \div 32768
        b0 == b % 32768
    IN  a1 * b1 * 32768 + a1 * b0 + a0 * b1 + (a0 * b0) \div 32768

\* the loop `for _ in 0..3` of tell_frac; acc is [log2_range, range_q15].
\* squared stays below 2^31, so a shift by more than 30 leaves zero.
RECURSIVE TellFracLoop(_, _)
TellFracLoop(acc, rounds) ==
    IF rounds = 0 THEN acc
    ELSE LET squared == MulShr15(acc.range_q15, acc.range_q15)
             lastbit == squared \div 65536
         IN  TellFracLoop([log2_range |-> BitOr(acc.log2_range * 2, lastbit),
                           range_q15  |-> IF lastbit > 30 THEN 0
                                          ELSE Shr(squared, lastbit)],
                          rounds - 1)

\* tell_frac as the integer consumed_bits * 8 - log2_range
TellFrac(self) ==
    LET log2_range == RangeILog2(self.range_less1) - 1
        range_q15 == RangeDiv(self.range_less1, Pow2(log2_range - 16))
    IN  self.consumed_bits * 8
        - TellFracLoop([log2_range |-> log2_range, range_q15 |-> range_q15], 3).log2_range

\* available and available_frac as integers; a negative one is a usize
\* subtraction that underflows
Available(self) == self.bitstream_length - Tell(self)

AvailableFrac(self) == self.bitstream_length * 8 - TellFrac(self)

\* rawbits
Rawbits(buf, self0, len) ==
    LET self == Entering(self0)
        g == LittleEndianGetBits32(buf, self.reverse_reader, len)
    IN  [self |-> [self EXCEPT !.consumed_bits = self.consumed_bits + len,
                               !.reverse_reader = g.reader],
         ret |-> g.value]

\* uniform.  (len - 1).ilog2() aborts for len = 1; the u32 subtraction
\* `ilog2 - 1` underflows for len = 2.
Uniform(buf, self0, len) ==
    LET self == Entering(self0)
    IN  IF len = 1 THEN [self |-> [self EXCEPT !.st = "panic"], ret |-> 0]
        ELSE IF len = 0 \/ ILog2(len - 1) = 0
        THEN [self |-> [self EXCEPT !.st = "overflow"], ret |-> 0]
        ELSE LET bits == ILog2(len - 1) - 1
                 total == IF bits > UNIFORM_THRESHOLD_BITS
                          THEN Shr(len - 1, bits - UNIFORM_THRESHOLD_BITS) + 1
                          ELSE len
                 ss == GetScaleSymbol(self, total)
             IN  IF ~ss.ok THEN [self |-> [self EXCEPT !.st = "panic"], ret |-> 0]
                 ELSE LET upd == UpdateRangeAndValue(buf, self, ss.scale, ss.symbol,
                                                     ss.symbol + 1, total)
                      IN  IF bits > UNIFORM_THRESHOLD_BITS /\ upd.st = "ok"
                          THEN LET raw == Rawbits(buf, upd, bits - UNIFORM_THRESHOLD_BITS)
                               IN  [self |-> [raw.self EXCEPT !.fetched = upd.fetched],
                                    ret |-> BitOr(ss.symbol * Pow2(bits - UNIFORM_THRESHOLD_BITS),
                                                  raw.ret)]
                          ELSE [self |-> upd, ret |-> ss.symbol]

\* the `while` loop of laplace; acc is [value, symbol, low]
RECURSIVE LaplaceLoop(_, _, _)
LaplaceLoop(acc, center, decay) ==
    IF acc.symbol > 1 /\ center >= acc.low + 2 * acc.symbol
    THEN LET doubled == acc.symbol * 2
         IN  LaplaceLoop([value  |-> acc.value + 1,
                          symbol |-> Shr((doubled - 2) * decay, 15) + 1,
                          low    |-> acc.low + doubled],
                         center, decay)
    ELSE acc

\* A plausible slip: the minimum probability of one left out.
LaplaceFirstNoMinimum(symbol, decay) == Shr((32768 - 32 - symbol) * (16384 - decay), 15)

\* `symbol = 1 + ((32768 - 32 - symbol) * (16384 - decay as usize) >> 15)`
LaplaceFirst(symbol, decay) == 1 + Shr((32768 - 32 - symbol) * (16384 - decay), 15)

\* laplace.  32768 - 32 - symbol and 16384 - decay are usize subtractions.
Laplace(buf, self0, symbol, decay) ==
    LET self == Entering(self0)
        range_scale == RangeDiv(self.range_less1, 32768)
    IN  IF range_scale = 0 THEN [self |-> [self EXCEPT !.st = "panic"], ret |-> 0]
        ELSE LET center == 32768 - Min(self.coded_value \div range_scale + 1, 32768)
             IN  IF center >= symbol
                 THEN IF symbol > 32768 - 32 \/ decay > 16384 \/ decay < 0
                      THEN [self |-> [self EXCEPT !.st = "overflow"], ret |-> 0]
                      ELSE LET first == LaplaceFirst(symbol, decay)
                               looped == LaplaceLoop([value |-> 1, symbol |-> first,
                                                      low |-> symbol], center, decay)
                               dist == Shr(center - looped.low, 1)
                               flat == IF looped.symbol <= 1
                                       THEN [value |-> looped.value + dist,
                                             symbol |-> looped.symbol,
                                             low |-> looped.low + 2 * dist]
                                       ELSE looped
                               signed == IF center < flat.low + flat.symbol
                                         THEN [flat EXCEPT !.value = flat.value * (-1)]
                                         ELSE [flat EXCEPT !.low = flat.low + flat.symbol]
                           IN  [self |-> UpdateRangeAndValue(buf, self, range_scale, signed.low,
                                             Min(32768, signed.low + signed.symbol), 32768),
                                ret |-> signed.value]
                 ELSE [self |-> UpdateRangeAndValue(buf, self, range_scale, 0,
                                    Min(32768, symbol), 32768),
                       ret |-> 0]

\* step, up to the interval it hands to update_range_and_value: the decoded
\* symbol, k, and the bounds low and high over the denominator total
StepInterval(self, k0) ==
    LET k1 == (k0 + 1) * 3
        total == k1 + k0
        range_scale == RangeDiv(self.range_less1, total)
    IN  IF range_scale = 0 THEN [ok |-> FALSE]
        ELSE LET symbol == total - Min(self.coded_value \div range_scale + 1, total)
                 k == IF symbol < k1 THEN symbol \div 3 ELSE symbol - (k0 + 1) \div 2
             IN  [ok |-> TRUE, scale |-> range_scale, symbol |-> symbol, k |-> k,
                  total |-> total,
                  low  |-> IF k <= k0 THEN 3 * (k + 0) ELSE 3 * (k + 1) + (k - 1 - k0),
                  high |-> IF k <= k0 THEN 3 * (k + 1) ELSE 3 * (k0 + 1) + (k - 0 - k0)]

\* step
Step(buf, self0, k0) ==
    LET self == Entering(self0)
        iv == StepInterval(self, k0)
    IN  IF ~iv.ok THEN [self |-> [self EXCEPT !.st = "panic"], ret |-> 0]
        ELSE [self |-> UpdateRangeAndValue(buf, self, iv.scale, iv.low, iv.high, iv.total),
              ret |-> iv.k]

\* A plausible slip: the square root rounded up.
IntegerSqrtUp(x) == CHOOSE r \in 0 .. x + 1 : (r - 1) * (r - 1) < x /\ x <= r * r

\* usize::integer_sqrt
IntegerSqrt(x) == CHOOSE r \in 0 .. x : r * r <= x /\ x < (r + 1) * (r + 1)

\* triangular, up to the interval it hands to update_range_and_value.  In the
\* upper half 2 * (qn + 1) - sqrt, qn + 1 - k and total - (...) are usize
\* subtractions.
TriangularInterval(self, qn) ==
    LET half_level == Shr(qn, 1)
        total == (half_level + 1) * (half_level + 1)
        range_scale == RangeDiv(self.range_less1, total)
    IN  IF range_scale = 0 THEN [st |-> "panic"]
        ELSE LET center == total - Min(self.coded_value \div range_scale + 1, total)
                 root == IntegerSqrt(8 * (total - center - 1) + 1)
             IN  IF center < Shr(total, 1)
                 THEN LET k == Shr(IntegerSqrt(8 * center + 1) - 1, 1)
                      IN  [st |-> "ok", scale |-> range_scale, center |-> center, k |-> k,
                           total |-> total, low |-> Shr(k * (k + 1), 1), symbol |-> k + 1]
                 ELSE IF root > 2 * (qn + 1)
                 THEN [st |-> "overflow"]
                 ELSE LET k == Shr(2 * (qn + 1) - root, 1)
                          low == total - Shr((qn + 1 - k) * (qn + 2 - k), 1)
                      IN  IF k > qn + 1 \/ low < 0
                          THEN [st |-> "overflow"]
                          ELSE [st |-> "ok", scale |-> range_scale, center |-> center,
                                k |-> k, total |-> total, low |-> low,
                                symbol |-> qn + 1 - k]

\* triangular
Triangular(buf, self0, qn) ==
    LET self == Entering(self0)
        iv == TriangularInterval(self, qn)
    IN  IF iv.st # "ok" THEN [self |-> [self EXCEPT !.st = iv.st], ret |-> 0]
        ELSE [self |-> UpdateRangeAndValue(buf, self, iv.scale, iv.low,
                                           iv.low + iv.symbol, iv.total),
              ret |-> iv.k]

\* A plausible slip: consumed_bits set to the payload length itself.
ToEndSetsTotal(self0) ==
    [Entering(self0) EXCEPT !.consumed_bits = self0.bitstream_length]

\* to_end, where bitstream_length - tell() does not underflow; where it does
\* a release build wraps twice and arrives at the same sum
ToEnd(self0) ==
    LET self == Entering(self0)
    IN  [self EXCEPT !.consumed_bits = self.consumed_bits + (self.bitstream_length - Tell(self))]

-----------------------------------------------------------------------------
(* A RangeCodingDecoder over one payload, its operations called in any     *)
(* order.                                                                  *)

MaxOps == 3

\* payloads: empty, one byte, and longer ones of zeros, of ones and mixed
RangeBuffers ==
    {PatternBuffer(f[1], f[2], n) : f \in {<<0, 0>>, <<255, 0>>}, n \in {0, 1, 6}}
    \cup {PatternBuffer(214, 87, n) : n \in {2, MaxBufLen}}

\* celt/bit_alloc.rs: a table is its total followed by its cumulative counts
SPREAD_MODEL_DICT == [total |-> 32, dist |-> <<7, 9, 30, 32>>]
ALLOC_TRIM_MODEL ==
    [total |-> 128, dist |-> <<2, 4, 9, 19, 41, 87, 109, 119, 124, 126, 128>>]

\* celt/filter.rs: the table of the call `icdf(4, &[2, 3, 4])`
TAPSET_MODEL == [total |-> 4, dist |-> <<2, 3, 4>>]

LogpArgs == {1, 3, 15}
IcdfArgs == {SPREAD_MODEL_DICT, ALLOC_TRIM_MODEL, TAPSET_MODEL}
UniformArgs == {1, 6, 1025}
LaplaceArgs == {<<9216, 8128>>, <<32497, 60>>, <<3072, 11456>>}
StepArgs == {0, 1}
TriangularArgs == {1, 3, 4}
RawbitsArgs == {1, 3}

\* the decoder held in the variables
Self ==
    [forward_reader |-> forward_reader,
     reverse_reader |-> reverse_reader,
     coded_value |-> coded_value,
     range_less1 |-> range_less1,
     consumed_bits |-> consumed_bits,
     bitstream_length |-> bitstream_length,
     st |-> "ok",
     range_wraps |-> FALSE,
     fetched |-> << >>]

\* the variables take the decoder `self` a call has left
Store(self) ==
    /\ forward_reader' = self.forward_reader
    /\ reverse_reader' = self.reverse_reader
    /\ coded_value' = self.coded_value
    /\ range_less1' = self.range_less1
    /\ consumed_bits' = self.consumed_bits
    /\ bitstream_length' = self.bitstream_length

\* how a call ends: a usize underflow aborts a debug build ("panic") and
\* wraps in a release build ("wrapped", after which the 64-bit fields are
\* outside the integers kept here and the decoder is not followed further)
Outcomes(st) == IF st = "overflow" THEN {"panic", "wrapped"} ELSE {st}

\* the call `op(arg)` returned `o`, having read `raw` bits from the back
Finish(op, arg, o, raw) ==
    /\ Store(o.self)
    /\ status' \in Outcomes(o.self.st)
    /\ last' = [op |-> op, arg |-> arg, ret |-> o.ret, pos |-> fwd_pos,
                fetched |-> o.self.fetched, raw |-> raw, rpos |-> rev_pos,
                range_wraps |-> o.self.range_wraps,
                underflow |-> o.self.st = "overflow",
                before |-> [coded_value |-> coded_value, range_less1 |-> range_less1,
                            consumed_bits |-> consumed_bits]]
    /\ fwd_pos' = fwd_pos + SYMBOL_BITS * Len(o.self.fetched)
    /\ rev_pos' = rev_pos + raw
    /\ n_ops' = n_ops + 1
    /\ UNCHANGED <<bytes, celt>>
    /\ UNCHANGED packetVars

RangeInit ==
    /\ PacketIdle
    /\ bytes \in RangeBuffers
    /\ LET self == RangeCodingDecoderNew(bytes)
       IN  /\ forward_reader = self.forward_reader
           /\ reverse_reader = self.reverse_reader
           /\ coded_value = self.coded_value
           /\ range_less1 = self.range_less1
           /\ consumed_bits = self.consumed_bits
           /\ bitstream_length = self.bitstream_length
           /\ status = self.st
           /\ last = [op |-> "new", arg |-> 0, ret |-> 0, pos |-> 0,
                      fetched |-> self.fetched, raw |-> 0, rpos |-> 0,
                      range_wraps |-> FALSE, underflow |-> FALSE,
                      before |-> [coded_value |-> 0, range_less1 |-> 0,
                                  consumed_bits |-> 0]]
           /\ fwd_pos = 7 + SYMBOL_BITS * (Len(self.fetched) - 1)
    /\ rev_pos = 0
    /\ n_ops = 0
    /\ celt = CeltFrameDecoderDefault

CallLogp ==
    /\ status = "ok"
    /\ n_ops < MaxOps
    /\ \E p \in LogpArgs : Finish("logp", p, Logp(bytes, Self, p), 0)

CallIcdf ==
    /\ status = "ok"
    /\ n_ops < MaxOps
    /\ \E t \in IcdfArgs : Finish("icdf", t, Icdf(bytes, Self, t), 0)

CallUniform ==
    /\ status = "ok"
    /\ n_ops < MaxOps
    /\ \E n \in UniformArgs :
          LET o == Uniform(bytes, Self, n)
          IN  Finish("uniform", n, o, o.self.consumed_bits - consumed_bits
                                       - SYMBOL_BITS * Len(o.self.fetched))

CallLaplace ==
    /\ status = "ok"
    /\ n_ops < MaxOps
    /\ \E a \in LaplaceArgs : Finish("laplace", a, Laplace(bytes, Self, a[1], a[2]), 0)

CallStep ==
    /\ status = "ok"
    /\ n_ops < MaxOps
    /\ \E k0 \in StepArgs : Finish("step", k0, Step(bytes, Self, k0), 0)

CallTriangular ==
    /\ status = "ok"
    /\ n_ops < MaxOps
    /\ \E qn \in TriangularArgs :
          \* for qn <= 1 the scale is current_range itself, which is kept
          \* here only below 2^31
          /\ qn >= 2 \/ range_less1 < CODE_MAX_VALUE_LESS1
          /\ Finish("triangular", qn, Triangular(bytes, Self, qn), 0)

CallRawbits ==
    /\ status = "ok"
    /\ n_ops < MaxOps
    /\ \E n \in RawbitsArgs : Finish("rawbits", n, Rawbits(bytes, Self, n), n)

\* to_end; bitstream_length - tell() underflows when tell() is larger
CallToEnd ==
    /\ status = "ok"
    /\ n_ops < MaxOps
    /\ \/ Finish("to_end", 0, [self |-> ToEnd(Self), ret |-> 0], 0)
       \/ /\ Tell(Self) > bitstream_length
          /\ Finish("to_end", 0, [self |-> [Self EXCEPT !.st = "panic"], ret |-> 0], 0)

RangeNext ==
    \/ CallLogp
    \/ CallIcdf
    \/ CallUniform
    \/ CallLaplace
    \/ CallStep
    \/ CallTriangular
    \/ CallRawbits
    \/ CallToEnd

RangeSpec == RangeInit /\ [][RangeNext]_vars

-----------------------------------------------------------------------------
(* The test decode_laplace replayed call by call, next to the decoders     *)
(* above.                                                                  *)

\* the payload of the test decode_laplace
LaplaceFixtureBytes ==
    <<
      255, 201, 249, 161, 77, 172, 239, 17, 161, 157, 220, 130, 101, 192,
      199, 41, 223, 112, 126, 194, 59, 131, 246, 99, 239, 250, 102, 73,
      130, 190, 207, 77, 157, 254, 59, 79, 240, 126, 166, 230, 157, 142,
      227, 61, 198, 110, 75, 187, 94, 218, 58, 183, 246, 167, 234, 223,
      218, 159, 168, 63, 125, 254, 80, 85, 117, 128, 138, 1, 68, 51, 4, 53,
      68, 128, 222, 96, 236, 107, 71, 34, 144, 68, 200, 90, 232, 144, 173,
      216, 248, 210, 30, 126, 125, 27, 252, 125, 25, 86, 247, 139, 163, 76,
      176, 113, 222, 186, 237, 158, 228, 21, 234, 154, 90, 113, 107, 5, 13,
      60, 197, 169, 172, 9, 217, 128, 155, 163, 157, 34, 130, 47, 235, 183,
      24, 22, 236, 226, 21, 207, 195, 113, 103, 74, 227, 166, 6, 124, 55,
      25, 22, 178, 213, 218
    >>

\* its calls, each <<expected return, symbol, decay>>
LaplaceFixtureCalls ==
    <<
      <<3, 32497, 60>>, <<0, 32505, 58>>, <<-1, 32512, 56>>,
      <<0, 32185, 139>>, <<1, 32425, 78>>, <<3, 32134, 152>>,
      <<2, 32189, 138>>, <<1, 32303, 109>>, <<-7, 32122, 155>>,
      <<5, 32212, 132>>, <<5, 32248, 123>>, <<0, 32342, 99>>,
      <<3, 32173, 142>>, <<-4, 32421, 79>>, <<2, 32271, 117>>,
      <<3, 32326, 103>>, <<2, 32386, 88>>, <<4, 32319, 105>>,
      <<0, 32473, 66>>, <<-5, 32232, 127>>, <<-2, 32326, 103>>,
      <<-3, 32461, 69>>, <<2, 32138, 151>>, <<0, 32449, 72>>,
      <<6, 32315, 106>>, <<-2, 32161, 145>>, <<1, 32334, 101>>,
      <<2, 32114, 157>>, <<4, 32130, 153>>, <<6, 32362, 94>>,
      <<6, 32142, 150>>, <<2, 32354, 96>>, <<-7, 32169, 143>>,
      <<0, 32157, 146>>, <<2, 32244, 124>>, <<4, 32248, 123>>,
      <<5, 32505, 58>>, <<-4, 32485, 63>>, <<6, 32413, 81>>,
      <<3, 32169, 143>>, <<-7, 32481, 64>>, <<1, 32315, 106>>,
      <<-2, 32185, 139>>, <<-7, 32362, 94>>, <<2, 32216, 131>>,
      <<-5, 32161, 145>>, <<-7, 32204, 134>>, <<-1, 32149, 148>>,
      <<-4, 32524, 53>>, <<-2, 32449, 72>>, <<5, 32315, 106>>,
      <<-6, 32271, 117>>, <<1, 32520, 54>>, <<-1, 32271, 117>>,
      <<4, 32267, 118>>, <<-5, 32110, 158>>, <<0, 32311, 107>>,
      <<2, 32402, 84>>, <<7, 32493, 61>>, <<-2, 32319, 105>>,
      <<-7, 32307, 108>>, <<0, 32461, 69>>, <<1, 32330, 102>>,
      <<-7, 32232, 127>>, <<2, 32189, 138>>, <<3, 32189, 138>>,
      <<1, 32299, 110>>, <<-6, 32291, 112>>, <<0, 32122, 155>>,
      <<0, 32528, 52>>, <<0, 32374, 91>>, <<-7, 32252, 122>>,
      <<-1, 32413, 81>>, <<-2, 32138, 151>>, <<1, 32311, 107>>,
      <<-6, 32142, 150>>, <<-2, 32145, 149>>, <<-2, 32236, 126>>,
      <<-5, 32346, 98>>, <<-7, 32263, 119>>, <<2, 32287, 113>>,
      <<-3, 32378, 90>>, <<3, 32236, 126>>, <<-4, 32394, 86>>,
      <<1, 32259, 120>>, <<-4, 32204, 134>>, <<-7, 32204, 134>>,
      <<-6, 32323, 104>>, <<4, 32126, 154>>, <<6, 32110, 158>>,
      <<-3, 32142, 150>>, <<-2, 32421, 79>>, <<6, 32429, 77>>,
      <<3, 32271, 117>>, <<-5, 32224, 129>>, <<-5, 32319, 105>>,
      <<-6, 32122, 155>>, <<6, 32181, 140>>, <<7, 32386, 88>>,
      <<3, 32398, 85>>
    >>

LaplaceInit ==
    /\ PacketIdle
    /\ bytes \in RangeBuffers \cup {LaplaceFixtureBytes}
    /\ LET self == RangeCodingDecoderNew(bytes)
       IN  /\ forward_reader = self.forward_reader
           /\ reverse_reader = self.reverse_reader
           /\ coded_value = self.coded_value
           /\ range_less1 = self.range_less1
           /\ consumed_bits = self.consumed_bits
           /\ bitstream_length = self.bitstream_length
           /\ status = self.st
           /\ last = [op |-> "new", arg |-> 0, ret |-> 0, pos |-> 0,
                      fetched |-> self.fetched, raw |-> 0, rpos |-> 0,
                      range_wraps |-> FALSE, underflow |-> FALSE,
                      before |-> [coded_value |-> 0, range_less1 |-> 0,
                                  consumed_bits |-> 0]]
           /\ fwd_pos = 7 + SYMBOL_BITS * (Len(self.fetched) - 1)
    /\ rev_pos = 0
    /\ n_ops = 0
    /\ celt = CeltFrameDecoderDefault

\* the next call of the test: rd.laplace(symbol, decay)
ReplayLaplace ==
    /\ status = "ok"
    /\ bytes = LaplaceFixtureBytes
    /\ n_ops < Len(LaplaceFixtureCalls)
    /\ LET call == LaplaceFixtureCalls[n_ops + 1]
       IN  Finish("laplace", <<call[2], call[3]>>,
                  Laplace(bytes, Self, call[2], call[3]), 0)

\* any call on one of the other payloads
CallAny ==
    /\ bytes # LaplaceFixtureBytes
    /\ RangeNext

LaplaceNext ==
    \/ ReplayLaplace
    \/ CallAny

LaplaceSpec == LaplaceInit /\ [][LaplaceNext]_vars

-----------------------------------------------------------------------------
(* Properties of the range decoder.                                        *)

SymbolOps == {"logp", "icdf", "uniform", "laplace", "step", "triangular"}

\* the last call returned to its caller
Returned == status \in {"ok", "wrapped"}

\* C11: after RangeCodingDecoder::new and after every completed symbol
\* operation (logp, icdf, uniform, laplace, step, triangular), in any order
\* and on any buffer, 2^23 < current_range <= 2^31
C11_RangeBounds ==
    Returned /\ last.op \in SymbolOps \cup {"new"} =>
        /\ ~last.range_wraps
        /\ range_less1 >= CODE_MIN_NORMALIZATION
        /\ range_less1 <= CODE_MAX_VALUE_LESS1

\* C12 as stated: after logp(p) returns, current_range >= 2^24
C12_LogpRangeAtLeast2p24 ==
    status = "ok" /\ last.op = "logp" => range_less1 >= 2 * CODE_MIN_NORMALIZATION - 1

\* C12, amended: after logp(p) returns, current_range > 2^23
C12_LogpRangeAbove2p23 ==
    last.op = "logp" => status = "ok" /\ range_less1 >= CODE_MIN_NORMALIZATION

\* logp has returned with a range between 2^23 and 2^24
C12_Witness ==
    /\ last.op = "logp"
    /\ status = "ok"
    /\ range_less1 >= CODE_MIN_NORMALIZATION
    /\ range_less1 < 2 * CODE_MIN_NORMALIZATION - 1

\* C14: in every state of the decoder, right after construction included,
\* tell_frac() / 8 is tell() - 1, tell() or tell() + 1
C14_TellFracWithinOneBit ==
    status = "ok" =>
        TellFrac(Self) \div 8 \in {Tell(Self) - 1, Tell(Self), Tell(Self) + 1}

\* C15: once the forward reader has passed the last byte of the buffer,
\* logp, icdf, laplace, triangular and rawbits still complete and return a
\* value, every byte they take being a zero byte and every raw bit past the
\* beginning a zero bit
C15_ExhaustedReadsZeros ==
    /\ last.op \in {"logp", "icdf", "laplace", "triangular", "rawbits"}
    /\ last.pos >= 8 * Len(bytes)
    => /\ status = "ok"
       /\ \A i \in 1 .. Len(last.fetched) : last.fetched[i] = 0
       /\ last.op = "rawbits" => last.ret = ReverseExpected(bytes, last.rpos, last.raw)

\* a symbol operation has normalised, taking bytes, on an exhausted buffer
C15_Witness ==
    /\ last.op \in {"logp", "icdf", "laplace", "triangular"}
    /\ last.pos >= 8 * Len(bytes)
    /\ Len(last.fetched) > 0
    /\ status = "ok"
    /\ n_ops > 1

\* C16: for every n >= 1, uniform(n) completes and returns an integer in
\* [0, n)
C16_UniformBelowN ==
    last.op = "uniform" =>
        /\ status = "ok"
        /\ 0 <= last.ret
        /\ last.ret < last.arg

\* C19 as stated: after to_end(), consumed_bits equals the payload length
\* in bits
C19_ToEndConsumedEqualsTotal ==
    status = "ok" /\ last.op = "to_end" => consumed_bits = bitstream_length

\* C19, amended: whenever to_end() returns, tell() equals the payload length
\* in bits, consumed_bits being that length plus ilog2(current_range) + 1
C19_ToEndTellEqualsTotal ==
    status = "ok" /\ last.op = "to_end" =>
        /\ Tell(Self) = bitstream_length
        /\ consumed_bits = bitstream_length + RangeILog2(range_less1) + 1

\* to_end has returned after symbols were decoded from a payload with bytes
C19_Witness ==
    /\ last.op = "to_end"
    /\ status = "ok"
    /\ n_ops > 1
    /\ bitstream_length > 0
    /\ consumed_bits # bitstream_length

\* C23: after construction and after every completed symbol operation
\* value < range, and no subtraction made while narrowing the interval
\* underflows
C23_ValueBelowRange ==
    last.op \in SymbolOps \cup {"new"} =>
        /\ ~last.underflow
        /\ status = "ok" => coded_value <= range_less1

\* C24: every step(k0) completes, and the interval [lo, hi) it narrows to
\* over the denominator 4 * k0 + 3 satisfies lo <= symbol < hi <= total
C24_StepInterval ==
    last.op = "step" =>
        LET iv == StepInterval(last.before, last.arg)
        IN  /\ status = "ok"
            /\ iv.ok
            /\ iv.total = 4 * last.arg + 3
            /\ iv.low <= iv.symbol
            /\ iv.symbol < iv.high
            /\ iv.high <= iv.total

\* C25: triangular(qn) returns k with 0 <= k <= qn, and the interval
\* [low, low + symbol) it narrows to contains the decoded position and lies
\* within [0, (floor(qn / 2) + 1)^2]
C25_TriangularInterval ==
    last.op = "triangular" =>
        LET iv == TriangularInterval(last.before, last.arg)
        IN  /\ status = "ok"
            /\ iv.st = "ok"
            /\ last.ret = iv.k
            /\ 0 <= iv.k
            /\ iv.k <= last.arg
            /\ iv.low <= iv.center
            /\ iv.center < iv.low + iv.symbol
            /\ 0 <= iv.low
            /\ iv.low + iv.symbol <= (last.arg \div 2 + 1) * (last.arg \div 2 + 1)

\* a call of triangular that decoded a position in the upper half
C25_Witness ==
    /\ last.op = "triangular"
    /\ status = "ok"
    /\ last.arg = 4
    /\ last.ret > 2

\* C26: on the tables of spread, tapset and alloc_trim icdf returns the first
\* index whose entry strictly exceeds
\* k = total - min(floor(value / floor(range / total)) + 1, total); the index
\* is a valid one and the call returns
C26_IcdfFirstIndexAbove ==
    last.op = "icdf" =>
        LET t == last.arg
            k == t.total - Min(last.before.coded_value
                                 \div RangeDiv(last.before.range_less1, t.total) + 1,
                               t.total)
        IN  /\ status = "ok"
            /\ last.ret \in 0 .. Len(t.dist) - 1
            /\ t.dist[last.ret + 1] > k
            /\ \A j \in 1 .. last.ret : t.dist[j] <= k

\* a call of icdf on the spread table that skipped entries of the table
C26_Witness ==
    /\ last.op = "icdf"
    /\ status = "ok"
    /\ last.arg = SPREAD_MODEL_DICT
    /\ last.ret = 2

\* The Laplace decoder of RFC 6716 (section 4.3.2.1 and the reference
\* ec_laplace_decode), on a decoder [val, rng_less1, nbits, pos]: the value,
\* the range less one, the bit count and the position in the bit string of
\* the payload from which the next symbol is taken.
\* Its LAPLACE_MINP is 1 and its LAPLACE_NMIN is 16.

\* ec_dec_normalize
RECURSIVE RfcNormalize(_, _)
RfcNormalize(buf, d) ==
    IF d.rng_less1 < 8388608
    THEN RfcNormalize(buf,
             [val |-> (d.val % 8388608) * 256 + (255 - ForwardExpected(buf, d.pos, 8)),
              rng_less1 |-> d.rng_less1 * 256 + 255,
              nbits |-> d.nbits + 8,
              pos |-> d.pos + 8])
    ELSE d

\* ec_dec_update(fl, fh, 32768) after ec_decode_bin(15)
RfcUpdate(buf, d, fl, fh) ==
    LET ext == RangeDiv(d.rng_less1, 32768)
        s == ext * (32768 - fh)
    IN  RfcNormalize(buf, [d EXCEPT !.val = d.val - s,
                                    !.rng_less1 = IF fl > 0 THEN ext * (fh - fl) - 1
                                                  ELSE d.rng_less1 - s])

\* the search of the decaying part of the distribution; acc is [val, fl, fs]
RECURSIVE RfcLaplaceSearch(_, _, _)
RfcLaplaceSearch(acc, fm, decay) ==
    IF acc.fs > 1 /\ fm >= acc.fl + 2 * acc.fs
    THEN RfcLaplaceSearch([val |-> acc.val + 1,
                           fl |-> acc.fl + 2 * acc.fs,
                           fs |-> ((2 * acc.fs - 2) * decay) \div 32768 + 1],
                          fm, decay)
    ELSE acc

\* ec_laplace_decode(fs, decay): [d, ret]
RfcLaplace(buf, d, fs0, decay) ==
    LET fm == 32768 - Min(d.val \div RangeDiv(d.rng_less1, 32768) + 1, 32768)
    IN  IF fm < fs0
        THEN [d |-> RfcUpdate(buf, d, 0, Min(fs0, 32768)), ret |-> 0]
        ELSE LET freq1 == ((32768 - 2 * 16 - fs0)
                           * (16384 - decay)) \div 32768
                 found == RfcLaplaceSearch([val |-> 1, fl |-> fs0,
                                            fs |-> freq1 + 1], fm, decay)
                 di == (fm - found.fl) \div 2
                 tail == IF found.fs <= 1
                         THEN [found EXCEPT !.val = found.val + di,
                                            !.fl = found.fl + 2 * di]
                         ELSE found
                 negative == fm < tail.fl + tail.fs
                 fl == IF negative THEN tail.fl ELSE tail.fl + tail.fs
             IN  [d |-> RfcUpdate(buf, d, fl, Min(fl + tail.fs, 32768)),
                  ret |-> IF negative THEN 0 - tail.val ELSE tail.val]

\* C22: every laplace(symbol, decay) call returns the value and leaves the
\* (value, range, consumed_bits) that the RFC 6716 Laplace decoder gives from
\* the same state, and the calls of the test decode_laplace return the
\* values the test lists
C22_LaplaceMatchesReference ==
    last.op = "laplace" =>
        LET ref == RfcLaplace(bytes, [val |-> last.before.coded_value,
                                      rng_less1 |-> last.before.range_less1,
                                      nbits |-> last.before.consumed_bits,
                                      pos |-> last.pos],
                              last.arg[1], last.arg[2])
        IN  /\ status = "ok"
            /\ last.ret = ref.ret
            /\ coded_value = ref.d.val
            /\ range_less1 = ref.d.rng_less1
            /\ consumed_bits = ref.d.nbits
            /\ bytes = LaplaceFixtureBytes => last.ret = LaplaceFixtureCalls[n_ops][1]

\* the last call of the test has returned
C22_Witness ==
    /\ bytes = LaplaceFixtureBytes
    /\ last.op = "laplace"
    /\ status = "ok"
    /\ n_ops = Len(LaplaceFixtureCalls)

-----------------------------------------------------------------------------
(* src/src/opus/celt/mod.rs: CeltFrameDecoder::decode from its entry to    *)
(* the silence flag, on a decoder freshly constructed over the frame       *)
(* payload as in OpusFrame::deocde.                                        *)

MAX_BANDS == 21
SHORT_BLOCKSIZE == 120

\* CeltBandwidthBand::band with Full one band past the last
BandwidthBandPastFull ==
    [Narrow |-> 13, Medium |-> 17, Wide |-> 17, SuperWide |-> 19, Full |-> 22]

\* CeltBandwidthBand::band
BandwidthBand ==
    [Narrow |-> 13, Medium |-> 17, Wide |-> 17, SuperWide |-> 19, Full |-> 21]

\* TOC bytes of the Hybrid and CELT configurations (12 to 31), mono, code 0
CeltTocBytes == {8 * config : config \in 12 .. 31}

\* frame payloads
CeltBuffers == RangeBuffers

\* the frame's TOC is one of CeltTocBytes decoded, with the field channels
\* that decode reads from it (1 for Mono, 2 for Stereo)
CeltInit ==
    /\ toc_byte = 0
    /\ toc_out = NoToc
    /\ packet = EmptyPacket
    /\ pc = "celt_entry"
    /\ \E b \in CeltTocBytes, channels \in 1 .. 2 :
          LET t == TableOfContentsDecode(b)
          IN  toc = [mode |-> t.mode, bandwidth |-> t.bandwidth,
                     duration |-> t.duration, code |-> t.code,
                     channels |-> channels]
    /\ datas = << >>
    /\ frames = << >>
    /\ result = "none"
    /\ bytes \in CeltBuffers
    /\ LET self == RangeCodingDecoderNew(bytes)
       IN  /\ forward_reader = self.forward_reader
           /\ reverse_reader = self.reverse_reader
           /\ coded_value = self.coded_value
           /\ range_less1 = self.range_less1
           /\ consumed_bits = self.consumed_bits
           /\ bitstream_length = self.bitstream_length
           /\ status = self.st
           /\ last = [op |-> "new", arg |-> 0, ret |-> 0, pos |-> 0,
                      fetched |-> self.fetched, raw |-> 0, rpos |-> 0,
                      range_wraps |-> FALSE, underflow |-> FALSE,
                      before |-> [coded_value |-> 0, range_less1 |-> 0,
                                  consumed_bits |-> 0]]
           /\ fwd_pos = 7 + SYMBOL_BITS * (Len(self.fetched) - 1)
    /\ rev_pos = 0
    /\ n_ops = 0
    /\ celt = CeltFrameDecoderDefault

\* the fields decode sets from the TOC t before it touches the range
\* decoder, with size taken from the duration without the division by
\* SHORT_BLOCKSIZE
CeltEnteredNoDivide(t) ==
    [celt EXCEPT
       !.channels = t.channels,
       !.band_range = [start |-> IF t.mode = "Hybrid" THEN 17 ELSE 0,
                       end   |-> BandwidthBand[t.bandwidth]],
       !.size = ILog2(FrameDurationValue[t.duration])]

\* the fields decode sets from the TOC t before it touches the range decoder
CeltEntered(t) ==
    [celt EXCEPT
       !.channels = t.channels,
       !.band_range = [start |-> IF t.mode = "Hybrid" THEN 17 ELSE 0,
                       end   |-> BandwidthBand[t.bandwidth]],
       !.size = ILog2(FrameDurationValue[t.duration] \div SHORT_BLOCKSIZE)]

\* `if self.band_range.end > MAX_BANDS { return Err(BandsOverflow) }`: the
\* return comes after channels and band_range are set, before size is set
\* and before the range decoder is asked anything
CeltBandsOverflow ==
    /\ celt' = [CeltEntered(toc) EXCEPT !.size = celt.size]
    /\ result' = "BandsOverflow"
    /\ pc' = "celt_done"
    /\ last' = [op |-> "bands_overflow", available |-> 0, read |-> FALSE,
                ret |-> FALSE, reads |-> 0, wrapped |-> FALSE]
    /\ UNCHANGED <<forward_reader, reverse_reader, coded_value, range_less1,
                   consumed_bits, bitstream_length, status, fwd_pos, n_ops>>

\* decode up to the silence flag, where available() does not underflow:
\* `if available() > 0 { logp(15) } else { true }`, then to_end() if silent
CeltSilence ==
    /\ pc = "celt_entry"
    /\ status = "ok"
    /\ Available(Self) >= 0
    /\ IF CeltEntered(toc).band_range.end > MAX_BANDS
       THEN CeltBandsOverflow
       ELSE LET read == Available(Self) > 0
                o == IF read THEN Logp(bytes, Self, 15)
                     ELSE [self |-> Entering(Self), ret |-> TRUE]
                under == o.ret /\ Tell(o.self) > bitstream_length
            IN  /\ celt' = [CeltEntered(toc) EXCEPT !.silence = o.ret]
                /\ Store(IF o.ret THEN ToEnd(o.self) ELSE o.self)
                /\ status' \in IF under THEN {"ok", "panic"} ELSE {"ok"}
                /\ last' = [op |-> "silence", available |-> Available(Self),
                            read |-> read, ret |-> o.ret,
                            reads |-> IF read THEN 1 ELSE 0,
                            wrapped |-> under]
                /\ fwd_pos' = fwd_pos + SYMBOL_BITS * Len(o.self.fetched)
                /\ n_ops' = n_ops + (IF read THEN 1 ELSE 0)
                                  + (IF o.ret THEN 1 ELSE 0)
                /\ pc' = "celt_post_filter"
                /\ result' = result
    /\ UNCHANGED <<bytes, rev_pos>>
    /\ UNCHANGED <<toc_byte, toc_out, packet, toc, datas, frames>>

\* the same stretch where bitstream_length - tell() underflows in
\* available(): a debug build aborts there; a release build takes the
\* wrapped difference, which is positive, and reads logp(15)
CeltSilenceUnderflow ==
    /\ pc = "celt_entry"
    /\ status = "ok"
    /\ Available(Self) < 0
    /\ IF CeltEntered(toc).band_range.end > MAX_BANDS
       THEN CeltBandsOverflow
       ELSE /\ \/ /\ status' = "panic"
                  /\ celt' = CeltEntered(toc)
                  /\ last' = [op |-> "silence", available |-> Available(Self),
                              read |-> FALSE, ret |-> FALSE, reads |-> 0,
                              wrapped |-> TRUE]
                  /\ UNCHANGED <<forward_reader, reverse_reader, coded_value,
                                 range_less1, consumed_bits, bitstream_length,
                                 fwd_pos, n_ops>>
               \/ LET o == Logp(bytes, Self, 15)
                  IN  /\ status' = "ok"
                      /\ celt' = [CeltEntered(toc) EXCEPT !.silence = o.ret]
                      /\ Store(IF o.ret THEN ToEnd(o.self) ELSE o.self)
                      /\ last' = [op |-> "silence",
                                  available |-> Available(Self),
                                  read |-> TRUE, ret |-> o.ret, reads |-> 1,
                                  wrapped |-> TRUE]
                      /\ fwd_pos' = fwd_pos + SYMBOL_BITS * Len(o.self.fetched)
                      /\ n_ops' = n_ops + 1 + (IF o.ret THEN 1 ELSE 0)
            /\ pc' = "celt_post_filter"
            /\ result' = result
    /\ UNCHANGED <<bytes, rev_pos>>
    /\ UNCHANGED <<toc_byte, toc_out, packet, toc, datas, frames>>

-----------------------------------------------------------------------------
(* src/src/opus/celt/bit_alloc.rs: the arithmetic of BitAlloc::decode from *)
(* the static caps to the pass after the bisection.  dec is the            *)
(* CeltFrameDecoder record, channels is 1 or 2 (`dec.channels as i32`),    *)
(* and a band i of the source is the index i + 1 of a table kept as a      *)
(* sequence.                                                               *)

VECTORS == 11

FREQ_RANGE ==
    <<1, 1, 1, 1, 1, 1, 1, 1, 2, 2, 2, 2, 4, 4, 4, 6, 6, 8, 12, 18, 22>>

LOG2_FRAC ==
    <<0, 8, 13, 16, 19, 21, 23, 24, 26, 27, 28, 29, 30,
      31, 32, 32, 33, 34, 34, 35, 36, 36, 37, 37>>

\* STATIC_CAPS[size][channels - 1][band]
STATIC_CAPS ==
    <<
      <<
        <<224, 224, 224, 224, 224, 224, 224, 224, 160, 160, 160,
          160, 185, 185, 185, 178, 178, 168, 134, 61, 37>>,
        <<224, 224, 224, 224, 224, 224, 224, 224, 240, 240, 240,
          240, 207, 207, 207, 198, 198, 183, 144, 66, 40>>
      >>,
      <<
        <<160, 160, 160, 160, 160, 160, 160, 160, 185, 185, 185,
          185, 193, 193, 193, 183, 183, 172, 138, 64, 38>>,
        <<240, 240, 240, 240, 240, 240, 240, 240, 207, 207, 207,
          207, 204, 204, 204, 193, 193, 180, 143, 66, 40>>
      >>,
      <<
        <<185, 185, 185, 185, 185, 185, 185, 185, 193, 193, 193,
          193, 193, 193, 193, 183, 183, 172, 138, 65, 39>>,
        <<207, 207, 207, 207, 207, 207, 207, 207, 204, 204, 204,
          204, 201, 201, 201, 188, 188, 176, 141, 66, 40>>
      >>,
      <<
        <<193, 193, 193, 193, 193, 193, 193, 193, 193, 193, 193,
          193, 194, 194, 194, 184, 184, 173, 139, 65, 39>>,
        <<204, 204, 204, 204, 204, 204, 204, 204, 201, 201, 201,
          201, 198, 198, 198, 187, 187, 175, 140, 66, 40>>
      >>
    >>

\* STATIC_ALLOC[row][band]
STATIC_ALLOC ==
    <<
      <<0, 0, 0, 0, 0, 0, 0, 0, 0, 0, 0, 0, 0, 0, 0, 0, 0, 0, 0, 0, 0>>,
      <<90, 80, 75, 69, 63, 56, 49, 40, 34, 29, 20,
        18, 10, 0, 0, 0, 0, 0, 0, 0, 0>>,
      <<110, 100, 90, 84, 78, 71, 65, 58, 51, 45, 39,
        32, 26, 20, 12, 0, 0, 0, 0, 0, 0>>,
      <<118, 110, 103, 93, 86, 80, 75, 70, 65, 59, 53,
        47, 40, 31, 23, 15, 4, 0, 0, 0, 0>>,
      <<126, 119, 112, 104, 95, 89, 83, 78, 72, 66, 60,
        54, 47, 39, 32, 25, 17, 12, 1, 0, 0>>,
      <<134, 127, 120, 114, 103, 97, 91, 85, 78, 72, 66,
        60, 54, 47, 41, 35, 29, 23, 16, 10, 1>>,
      <<144, 137, 130, 124, 113, 107, 101, 95, 88, 82, 76,
        70, 64, 57, 51, 45, 39, 33, 26, 15, 1>>,
      <<152, 145, 138, 132, 123, 117, 111, 105, 98, 92, 86,
        80, 74, 67, 61, 55, 49, 43, 36, 20, 1>>,
      <<162, 155, 148, 142, 133, 127, 121, 115, 108, 102, 96,
        90, 84, 77, 71, 65, 59, 53, 46, 30, 1>>,
      <<172, 165, 158, 152, 143, 137, 131, 125, 118, 112, 106,
        100, 94, 87, 81, 75, 69, 63, 56, 45, 20>>,
      <<200, 200, 200, 200, 200, 200, 200, 200, 198, 193, 188,
        183, 178, 173, 168, 163, 158, 153, 148, 129, 104>>
    >>

\* x << n and x >> n on i32, the latter arithmetic
Shl(x, n) == x * Pow2(n)

Sar(x, n) == x \div Pow2(n)

Max(a, b) == IF a > b THEN a ELSE b

\* `(STATIC_CAPS[..][i] + 64) * FREQ_RANGE[i]` on u8: [bits, overflow], bits
\* being the product modulo 256 that a release build is left with
StaticCapsBits(dec, i) ==
    LET sum == STATIC_CAPS[dec.size + 1][dec.channels][i + 1] + 64
        product == (sum % 256) * FREQ_RANGE[i + 1]
    IN  [bits |-> product % 256, overflow |-> sum > 255 \/ product > 255]

\* `dec.caps[i] = (bits as i32) << (dec.channels as i32 - 1) << dec.size as i32 >> 2`
StaticCaps(dec) ==
    [i \in 0 .. MAX_BANDS - 1 |->
        Sar(Shl(Shl(StaticCapsBits(dec, i).bits, dec.channels - 1), dec.size), 2)]

\* the anti-collapse reservation, from the budget tbits_8ths
AntiCollapseNeeded(dec, tbits_8ths) ==
    IF dec.transient /\ dec.size >= 2 /\ tbits_8ths >= Shl(dec.size + 2, 3)
    THEN Shl(1, 3)
    ELSE 0

\* `tbits_8ths = dec.anticollapse_needed;`
AfterAntiCollapse(tbits_8ths, anticollapse_needed) == anticollapse_needed

\* A plausible slip: the intensity-stereo bits taken without the guard.
SkipStereoUnguarded(dec, budget) ==
    LET skip_bit == IF budget >= Shl(1, 3) THEN Shl(1, 3) ELSE 0
        log2_frac == LOG2_FRAC[dec.band_range.end - dec.band_range.start + 1]
        intensity == IF dec.channels = 2 THEN log2_frac ELSE 0
        dual == dec.channels = 2 /\ budget - skip_bit - intensity >= Shl(1, 3)
    IN  [skip_bit |-> skip_bit,
         intensitystereo_bit |-> intensity,
         dualstereo_bit |-> IF dual THEN Shl(1, 3) ELSE 0,
         tbits_8ths |-> budget - skip_bit - intensity - (IF dual THEN Shl(1, 3) ELSE 0)]

\* the skip and stereo reservations of lines 187 to 209, from the budget
\* tbits_8ths they start with
SkipStereo(dec, budget) ==
    LET skip_bit == IF budget >= Shl(1, 3) THEN Shl(1, 3) ELSE 0
        after_skip == budget - skip_bit
        stereo == dec.channels = 2
        log2_frac == LOG2_FRAC[dec.band_range.end - dec.band_range.start + 1]
        intensity == stereo /\ log2_frac <= after_skip
        after_intensity == IF intensity THEN after_skip - log2_frac ELSE after_skip
        dual == intensity /\ after_intensity >= Shl(1, 3)
    IN  [skip_bit |-> skip_bit,
         intensitystereo_bit |-> IF intensity THEN log2_frac ELSE 0,
         dualstereo_bit |-> IF dual THEN Shl(1, 3) ELSE 0,
         tbits_8ths |-> IF dual THEN after_intensity - Shl(1, 3) ELSE after_intensity]

\* the reservations of lines 176 to 209, from the budget
\* `(len << 3) - tell_frac - 1`
Reservations(dec, budget) ==
    LET anticollapse_needed == AntiCollapseNeeded(dec, budget)
        carried == AfterAntiCollapse(budget, anticollapse_needed)
        s == SkipStereo(dec, carried)
    IN  [anticollapse_needed |-> anticollapse_needed,
         carried |-> carried,
         skip_bit |-> s.skip_bit,
         intensitystereo_bit |-> s.intensitystereo_bit,
         dualstereo_bit |-> s.dualstereo_bit,
         tbits_8ths |-> s.tbits_8ths]

\* threshold[i]
Threshold(dec, i) ==
    Max(Sar(Shl(3 * FREQ_RANGE[i + 1], dec.size + 3), 4), Shl(dec.channels, 3))

\* trim_offset[i]
TrimOffset(dec, i) ==
    LET trim == dec.alloc_trim - 5 - dec.size
        band == FREQ_RANGE[i + 1] * (dec.band_range.end - i - 1)
        scale == dec.size + 3 + dec.channels - 1
        offset == Sar(trim * Shl(band, scale), 6)
    IN  IF Shl(FREQ_RANGE[i + 1], dec.size) = 1
        THEN offset - Shl(dec.channels, 3)
        ELSE offset

\* the first assignment to bandbits, from row `row` of STATIC_ALLOC
RowBits(dec, row, i) ==
    Sar(Shl(Shl(FREQ_RANGE[i + 1] * STATIC_ALLOC[row + 1][i + 1], dec.channels - 1),
            dec.size), 2)

\* the inner loop of the bisection over the bands i, i - 1, ..., start;
\* acc is [done, total]
RECURSIVE RowTotalLoop(_, _, _, _, _)
RowTotalLoop(dec, boost, center, i, acc) ==
    IF i < dec.band_range.start THEN acc
    ELSE LET first == RowBits(dec, center, i)
             trimmed == IF first > 0 THEN Max(0, first + TrimOffset(dec, i)) ELSE first
             bandbits == trimmed + boost[i]
         IN  RowTotalLoop(dec, boost, center, i - 1,
                 IF bandbits >= Threshold(dec, i) \/ acc.done
                 THEN [done |-> TRUE, total |-> acc.total + Min(bandbits, dec.caps[i])]
                 ELSE IF bandbits >= Shl(dec.channels, 3)
                 THEN [acc EXCEPT !.total = acc.total + Shl(dec.channels, 3)]
                 ELSE acc)

\* total, as one round of the bisection leaves it for the row `center`
RowTotal(dec, boost, center) ==
    RowTotalLoop(dec, boost, center, dec.band_range.end - 1,
                 [done |-> FALSE, total |-> 0]).total

\* A plausible slip: `>=` for `>`, so that a row that takes the whole budget
\* is passed over.
RowExceedsOrMeets(total, tbits_8ths) == total >= tbits_8ths

\* `if total > tbits_8ths`
RowExceeds(total, tbits_8ths) == total > tbits_8ths

\* `while low <= high`; acc is [low, high, rows], rows being the rows of
\* STATIC_ALLOC read so far
RECURSIVE BisectionLoop(_, _, _, _)
BisectionLoop(dec, boost, tbits_8ths, acc) ==
    IF acc.low <= acc.high
    THEN LET center == Sar(acc.low + acc.high, 1)
         IN  BisectionLoop(dec, boost, tbits_8ths,
                 IF RowExceeds(RowTotal(dec, boost, center), tbits_8ths)
                 THEN [acc EXCEPT !.high = center - 1, !.rows = acc.rows \cup {center}]
                 ELSE [acc EXCEPT !.low = center + 1, !.rows = acc.rows \cup {center}])
    ELSE acc

\* the bisection with the `high = low - 1` that follows it
Bisection(dec, boost, tbits_8ths) ==
    LET left == BisectionLoop(dec, boost, tbits_8ths,
                              [low |-> 1, high |-> VECTORS - 1, rows |-> {}])
    IN  [left EXCEPT !.high = left.low - 1]

-----------------------------------------------------------------------------
(* The reservations and the bisection of BitAlloc::decode, each entered    *)
(* with the locals and the decoder fields it reads.                        *)

\* the band ranges decode sets: CELT from band 0, Hybrid from band 17
BandRanges ==
    {[start |-> 0, end |-> e] : e \in {13, 17, 19, 21}}
    \cup {[start |-> 17, end |-> e] : e \in {19, 21}}

\* budgets in eighth-bits, up to that of a 1275-byte payload
Budgets == {-1, 0, 7, 8, 31, 32, 39, 40, 300, 1000, 3000, 10199, 81599}

AllocTrims == {0, 5, 10}

\* boost vectors: none, and one quantum of 48 on two of the lower bands
BoostVectors ==
    {[i \in 0 .. MAX_BANDS - 1 |-> 0],
     [i \in 0 .. MAX_BANDS - 1 |-> IF i \in {2, 18} THEN 48 ELSE 0]}

AllocDecoders ==
    {[CeltFrameDecoderDefault EXCEPT
        !.band_range = r, !.size = size, !.channels = channels,
        !.transient = transient, !.alloc_trim = trim] :
     r \in BandRanges, size \in 0 .. 3, channels \in 1 .. 2,
     transient \in BOOLEAN, trim \in AllocTrims}

AllocInit ==
    /\ toc_byte = 0
    /\ toc_out = NoToc
    /\ packet = EmptyPacket
    /\ pc \in {"alloc_reserve", "alloc_skip", "alloc_bisection"}
    /\ toc = NoToc
    /\ datas = << >>
    /\ frames = << >>
    /\ result = "none"
    /\ bytes = << >>
    /\ forward_reader = [index |-> 0, left |-> 0]
    /\ reverse_reader = [index |-> 0, left |-> 0]
    /\ coded_value = 0
    /\ range_less1 = 0
    /\ consumed_bits = 0
    /\ bitstream_length = 0
    /\ status = "ok"
    /\ n_ops = 0
    /\ fwd_pos = 0
    /\ rev_pos = 0
    /\ \E dec \in AllocDecoders :
          /\ dec.transient => dec.size > 0
          /\ celt = [dec EXCEPT !.caps = StaticCaps(dec)]
    /\ \E tbits_8ths \in Budgets, boost \in BoostVectors :
          /\ pc # "alloc_bisection" => boost = [i \in 0 .. MAX_BANDS - 1 |-> 0]
          /\ pc = "alloc_skip" => tbits_8ths >= 0
          /\ last = [op |-> "locals", tbits_8ths |-> tbits_8ths, boost |-> boost]

\* lines 176 to 209
AllocReserve ==
    /\ pc = "alloc_reserve"
    /\ LET r == Reservations(celt, last.tbits_8ths)
       IN  /\ celt' = [celt EXCEPT !.anticollapse_needed = r.anticollapse_needed]
           /\ last' = [op |-> "reserve", budget |-> last.tbits_8ths, r |-> r,
                       tbits_8ths |-> r.tbits_8ths, boost |-> last.boost]
    /\ pc' = "alloc_bisection"
    /\ UNCHANGED <<toc_byte, toc_out, packet, toc, datas, frames, result>>
    /\ UNCHANGED <<bytes, forward_reader, reverse_reader, coded_value, range_less1,
                   consumed_bits, bitstream_length, status, n_ops, fwd_pos, rev_pos>>

\* lines 187 to 209, entered with the budget line 185 leaves
AllocSkipStereo ==
    /\ pc = "alloc_skip"
    /\ LET s == SkipStereo(celt, last.tbits_8ths)
       IN  last' = [op |-> "skip_stereo", budget |-> last.tbits_8ths, s |-> s,
                    tbits_8ths |-> s.tbits_8ths, boost |-> last.boost]
    /\ pc' = "alloc_bisection"
    /\ UNCHANGED <<toc_byte, toc_out, packet, toc, datas, frames, result>>
    /\ UNCHANGED <<bytes, forward_reader, reverse_reader, coded_value, range_less1,
                   consumed_bits, bitstream_length, status, n_ops, fwd_pos, rev_pos,
                   celt>>

\* lines 211 to 266
AllocBisection ==
    /\ pc = "alloc_bisection"
    /\ LET b == Bisection(celt, last.boost, last.tbits_8ths)
       IN  last' = [op |-> "bisection", tbits_8ths |-> last.tbits_8ths,
                    boost |-> last.boost, low |-> b.low, high |-> b.high,
                    rows |-> b.rows]
    /\ pc' = "alloc_pass"
    /\ UNCHANGED <<toc_byte, toc_out, packet, toc, datas, frames, result>>
    /\ UNCHANGED <<bytes, forward_reader, reverse_reader, coded_value, range_less1,
                   consumed_bits, bitstream_length, status, n_ops, fwd_pos, rev_pos,
                   celt>>

\* lines 268 to 276: the pass over the bands reads STATIC_ALLOC[low], and
\* an index past the table aborts
AllocPass ==
    /\ pc = "alloc_pass"
    /\ status' = IF last.low < VECTORS THEN "ok" ELSE "panic"
    /\ last' = [op |-> "pass", tbits_8ths |-> last.tbits_8ths, boost |-> last.boost,
                low |-> last.low, high |-> last.high,
                rows |-> last.rows \cup {last.low}]
    /\ pc' = "alloc_done"
    /\ UNCHANGED <<toc_byte, toc_out, packet, toc, datas, frames, result>>
    /\ UNCHANGED <<bytes, forward_reader, reverse_reader, coded_value, range_less1,
                   consumed_bits, bitstream_length, n_ops, fwd_pos, rev_pos, celt>>

AllocNext ==
    \/ AllocReserve
    \/ AllocSkipStereo
    \/ AllocBisection
    \/ AllocPass

AllocSpec == AllocInit /\ [][AllocNext]_vars

-----------------------------------------------------------------------------
(* CeltFrameDecoder::decode after the silence flag.  A stage of decode is  *)
(* an operator on the record m of                                          *)
(*   self  : the range decoder,                                            *)
(*   dec   : the CeltFrameDecoder,                                         *)
(*   reads : the number of calls that took a symbol or raw bits,           *)
(*   under : whether a difference or product of the stage left its type    *)
(*           (available() with tell() beyond the length, a u8 product      *)
(*           beyond 255): a debug build aborts there, a release build goes *)
(*           on with the wrapped result,                                   *)
(*   fwd, rev : the bits taken from the front and from the back,           *)
(* and of what the stage decoded.  A stage stops where a call leaves the   *)
(* range decoder in a state other than "ok".                               *)

\* what a release build finds in available() where tell() is beyond the
\* length: the difference modulo 2^64, above every count it is compared with
UsizeWrapped == 2147483647

AvailableUsize(self) == IF Available(self) < 0 THEN UsizeWrapped ELSE Available(self)

Running(m) == m.self.st = "ok"

\* m after a call of the range decoder that returned o and took raw bits
\* from the back; m.ret is what the call returned
Called(m, o, raw) ==
    [m EXCEPT !.self = o.self,
              !.ret = o.ret,
              !.reads = @ + 1,
              !.fwd = @ + SYMBOL_BITS * Len(o.self.fetched),
              !.rev = @ + raw]

\* m after a call of available()
Asked(m) == [m EXCEPT !.under = @ \/ Available(m.self) < 0]

\* the calls of a stage; a stage that has stopped makes none
DoLogp(buf, m, logp) ==
    IF Running(m) THEN Called(m, Logp(buf, m.self, logp), 0) ELSE m

DoIcdf(buf, m, icdf) ==
    IF Running(m) THEN Called(m, Icdf(buf, m.self, icdf), 0) ELSE m

DoUniform(buf, m, len) ==
    IF Running(m) THEN Called(m, Uniform(buf, m.self, len), 0) ELSE m

DoRawbits(buf, m, len) ==
    IF Running(m) THEN Called(m, Rawbits(buf, m.self, len), len) ELSE m

DoLaplace(buf, m, symbol, decay) ==
    IF Running(m) THEN Called(m, Laplace(buf, m.self, symbol, decay), 0) ELSE m

\* A plausible slip: the fine pitch read with one raw bit more.
PostFilterDecodeWide(buf, m) ==
    LET Octave(a) ==
            IF ~Running(a) THEN a
            ELSE [a EXCEPT !.post_filter = [decoded |-> TRUE, octave |-> a.ret,
                                            period |-> 0, gain |-> 0, tapset |-> 0,
                                            available |-> 0]]
        Fine(a) == DoRawbits(buf, a, 5 + a.post_filter.octave)
        Period(a) ==
            IF ~Running(a) THEN a
            ELSE [a EXCEPT !.post_filter.period =
                               Max(Shl(16, a.post_filter.octave) + a.ret - 1, 15)]
        Gain(a) ==
            IF ~Running(a) THEN a
            ELSE [Asked(a) EXCEPT !.post_filter.gain = a.ret + 1,
                                  !.post_filter.available = AvailableUsize(a.self)]
        Kept(a) ==
            IF ~Running(a) THEN a ELSE [a EXCEPT !.post_filter.tapset = a.ret]
        Tapset(a) ==
            IF Running(a) /\ AvailableUsize(a.self) >= 2
            THEN Kept(DoIcdf(buf, a, TAPSET_MODEL))
            ELSE a
    IN  Tapset(Gain(DoRawbits(buf, Period(Fine(Octave(DoUniform(buf, m, 6)))), 3)))

\* celt/filter.rs, PostFilter::decode; the period is period_new and the
\* gain is counted in steps of 0.09375
PostFilterDecode(buf, m) ==
    LET Octave(a) ==
            IF ~Running(a) THEN a
            ELSE [a EXCEPT !.post_filter = [decoded |-> TRUE, octave |-> a.ret,
                                            period |-> 0, gain |-> 0, tapset |-> 0,
                                            available |-> 0]]
        Fine(a) == DoRawbits(buf, a, 4 + a.post_filter.octave)
        Period(a) ==
            IF ~Running(a) THEN a
            ELSE [a EXCEPT !.post_filter.period =
                               Max(Shl(16, a.post_filter.octave) + a.ret - 1, 15)]
        Gain(a) ==
            IF ~Running(a) THEN a
            ELSE [Asked(a) EXCEPT !.post_filter.gain = a.ret + 1,
                                  !.post_filter.available = AvailableUsize(a.self)]
        Kept(a) ==
            IF ~Running(a) THEN a ELSE [a EXCEPT !.post_filter.tapset = a.ret]
        Tapset(a) ==
            IF Running(a) /\ AvailableUsize(a.self) >= 2
            THEN Kept(DoIcdf(buf, a, TAPSET_MODEL))
            ELSE a
    IN  Tapset(Gain(DoRawbits(buf, Period(Fine(Octave(DoUniform(buf, m, 6)))), 3)))

\* celt/mod.rs, lines 120 to 125
PostFilterStage(buf, m) ==
    LET HasPostfilter(a) ==
            IF Running(a) /\ a.ret THEN PostFilterDecode(buf, a) ELSE a
    IN  IF m.dec.band_range.start # 0 THEN m
        ELSE IF AvailableUsize(m.self) < 16 THEN Asked(m)
        ELSE HasPostfilter(DoLogp(buf, Asked(m), 1))

\* celt/mod.rs, lines 132 to 136
TransientStage(buf, m) ==
    LET Kept(a) == IF ~Running(a) THEN a ELSE [a EXCEPT !.dec.transient = a.ret]
    IN  IF m.dec.size = 0 THEN [m EXCEPT !.dec.transient = FALSE]
        ELSE IF AvailableUsize(m.self) >= 3 THEN Kept(DoLogp(buf, Asked(m), 3))
        ELSE [Asked(m) EXCEPT !.dec.transient = FALSE]

\* COARSE_ENERGY_DICT[size][intra][2 * band], [2 * band + 1]
COARSE_ENERGY_DICT ==
    <<
      <<
        <<72, 127, 65, 129, 66, 128, 65, 128, 64, 128, 62, 128, 64, 128, 64,
          128, 92, 78, 92, 79, 92, 78, 90, 79, 116, 41, 115, 40, 114, 40,
          132, 26, 132, 26, 145, 17, 161, 12, 176, 10, 177, 11>>,
        <<24, 179, 48, 138, 54, 135, 54, 132, 53, 134, 56, 133, 55, 132, 55,
          132, 61, 114, 70, 96, 74, 88, 75, 88, 87, 74, 89, 66, 91, 67, 100,
          59, 108, 50, 120, 40, 122, 37, 97, 43, 78, 50>>
      >>,
      <<
        <<83, 78, 84, 81, 88, 75, 86, 74, 87, 71, 90, 73, 93, 74, 93, 74,
          109, 40, 114, 36, 117, 34, 117, 34, 143, 17, 145, 18, 146, 19, 162,
          12, 165, 10, 178, 7, 189, 6, 190, 8, 177, 9>>,
        <<23, 178, 54, 115, 63, 102, 66, 98, 69, 99, 74, 89, 71, 91, 73, 91,
          78, 89, 86, 80, 92, 66, 93, 64, 102, 59, 103, 60, 104, 60, 117, 52,
          123, 44, 138, 35, 133, 31, 97, 38, 77, 45>>
      >>,
      <<
        <<61, 90, 93, 60, 105, 42, 107, 41, 110, 45, 116, 38, 113, 38, 112,
          38, 124, 26, 132, 27, 136, 19, 140, 20, 155, 14, 159, 16, 158, 18,
          170, 13, 177, 10, 187, 8, 192, 6, 175, 9, 159, 10>>,
        <<21, 178, 59, 110, 71, 86, 75, 85, 84, 83, 91, 66, 88, 73, 87, 72,
          92, 75, 98, 72, 105, 58, 107, 54, 115, 52, 114, 55, 112, 56, 129,
          51, 132, 40, 150, 33, 140, 29, 98, 35, 77, 42>>
      >>,
      <<
        <<42, 121, 96, 66, 108, 43, 111, 40, 117, 44, 123, 32, 120, 36, 119,
          33, 127, 33, 134, 34, 139, 21, 147, 23, 152, 20, 158, 25, 154, 26,
          166, 21, 173, 16, 184, 13, 184, 10, 150, 13, 139, 15>>,
        <<22, 178, 63, 114, 74, 82, 84, 83, 92, 82, 103, 62, 96, 72, 96, 67,
          101, 73, 107, 72, 113, 55, 118, 52, 125, 52, 118, 52, 117, 55, 135,
          49, 137, 39, 157, 32, 145, 29, 97, 33, 77, 40>>
      >>
    >>

\* ALPHA_COEF and BETA_COEF times 32768
ALPHA_COEF == <<29440, 26112, 21248, 16384>>

BETA_COEF == <<32768 - 30147, 32768 - 22282, 32768 - 12124, 32768 - 6554>>

\* `(model[idx] << 7) as usize` and `(model[idx + 1] << 6) as isize`: the
\* shifts are made on u8 and keep the low eight bits
U8Shl(x, n) == Shl(x, n) % 256

\* the value read for a band in CoarseEnergy::decode, left in m.ret
CoarseEnergyValue(buf, m, symbol, decay) ==
    LET Small(a) ==
            IF ~Running(a) THEN a
            ELSE [a EXCEPT !.ret = IF a.ret = 1 THEN -1 ELSE IF a.ret = 2 THEN 1 ELSE 0]
        Bit(a) ==
            IF ~Running(a) THEN a ELSE [a EXCEPT !.ret = IF a.ret THEN -1 ELSE 0]
    IN  IF AvailableUsize(m.self) >= 15 THEN DoLaplace(buf, m, symbol, decay)
        ELSE IF AvailableUsize(m.self) >= 2 THEN Small(DoIcdf(buf, m, TAPSET_MODEL))
        ELSE IF AvailableUsize(m.self) >= 1 THEN Bit(DoLogp(buf, m, 1))
        ELSE [m EXCEPT !.ret = -1]

\* the body of the loops of CoarseEnergy::decode for a band in band_range;
\* coef is [alpha, beta, model].  Energies and prev are in units of
\* 1/32768, in which the sums of the source are exact as long as the
\* energies a frame starts from are zero.
CoarseEnergyBand(buf, m, coef, band, channel) ==
    LET idx == Shl(Min(band, 20), 1)
        symbol == U8Shl(coef.model[idx + 1], 7)
        decay == U8Shl(coef.model[idx + 2], 6)
        Sum(a) == (a.dec.energy[channel][band] * coef.alpha) \div 32768
                  + a.prev[channel] + a.ret * 32768
        Kept(a) ==
            IF ~Running(a) THEN a
            ELSE [a EXCEPT
                    !.dec.energy[channel][band] = 0 - Max(9 * 32768, Sum(a)),
                    !.prev[channel] = @ + coef.beta * a.ret,
                    !.coarse = Append(@, [band |-> band, channel |-> channel,
                                          available |-> AvailableUsize(m.self),
                                          symbol |-> symbol, decay |-> decay,
                                          value |-> a.ret, sum |-> Sum(a)])]
    IN  Kept(CoarseEnergyValue(buf, Asked(m), symbol, decay))

\* the loops of CoarseEnergy::decode, from the n-th pair of band and channel
RECURSIVE CoarseEnergyLoop(_, _, _, _)
CoarseEnergyLoop(buf, m, coef, n) ==
    IF n = MAX_BANDS * m.dec.channels \/ ~Running(m) THEN m
    ELSE IF n \div m.dec.channels < m.dec.band_range.start
            \/ n \div m.dec.channels >= m.dec.band_range.end
    THEN CoarseEnergyLoop(buf,
             [m EXCEPT !.dec.energy[n % m.dec.channels][n \div m.dec.channels] = 0],
             coef, n + 1)
    ELSE CoarseEnergyLoop(buf,
             CoarseEnergyBand(buf, m, coef, n \div m.dec.channels, n % m.dec.channels),
             coef, n + 1)

\* CoarseEnergy::decode
CoarseEnergyStage(buf, m) ==
    LET Coef(intra) ==
            IF intra
            THEN [alpha |-> 0, beta |-> 32768 - 4915,
                  model |-> COARSE_ENERGY_DICT[m.dec.size + 1][2]]
            ELSE [alpha |-> ALPHA_COEF[m.dec.size + 1],
                  beta |-> BETA_COEF[m.dec.size + 1],
                  model |-> COARSE_ENERGY_DICT[m.dec.size + 1][1]]
        Intra(a, intra) == CoarseEnergyLoop(buf, [a EXCEPT !.intra = intra], Coef(intra), 0)
        Read(a) == IF ~Running(a) THEN a ELSE Intra(a, a.ret)
    IN  IF AvailableUsize(m.self) > 3 THEN Read(DoLogp(buf, Asked(m), 3))
        ELSE Intra(Asked(m), FALSE)

\* TF_SELECT[size][transient][select][flag]
TF_SELECT ==
    <<
      << << <<0, -1>>, <<0, -1>> >>, << <<0, -1>>, <<0, -1>> >> >>,
      << << <<0, -1>>, <<0, -2>> >>, << <<1, 0>>, <<1, -1>> >> >>,
      << << <<0, -2>>, <<0, -3>> >>, << <<2, 0>>, <<1, -1>> >> >>,
      << << <<0, -2>>, <<0, -3>> >>, << <<3, 0>>, <<1, -1>> >> >>
    >>

\* A plausible slip: the flag of a band is the bit read for it.
TimeFrequencyBandNoXor(buf, m, i, bits, select_bit) ==
    LET Read(a) ==
            IF ~Running(a) THEN a
            ELSE [a EXCEPT !.diff = a.ret, !.change = @ \/ a.ret]
        Kept(a, read) ==
            IF ~Running(a) THEN a
            ELSE [a EXCEPT
                    !.dec.time_frequency_change[i] = IF a.diff THEN 1 ELSE 0,
                    !.tf = Append(@, [band |-> i, bits |-> bits, read |-> read,
                                      bit |-> read /\ a.ret])]
    IN  IF AvailableUsize(m.self) > bits + (IF select_bit THEN 1 ELSE 0)
        THEN Kept(Read(DoLogp(buf, Asked(m), bits)), TRUE)
        ELSE Kept(Asked(m), FALSE)

\* the body of the first loop of TimeFrequencyChange::decode; m.tf keeps,
\* band by band, whether a bit was read and the bit
TimeFrequencyBand(buf, m, i, bits, select_bit) ==
    LET Read(a) ==
            IF ~Running(a) THEN a
            ELSE [a EXCEPT !.diff = (@ # a.ret), !.change = @ \/ (a.diff # a.ret)]
        Kept(a, read) ==
            IF ~Running(a) THEN a
            ELSE [a EXCEPT
                    !.dec.time_frequency_change[i] = IF a.diff THEN 1 ELSE 0,
                    !.tf = Append(@, [band |-> i, bits |-> bits, read |-> read,
                                      bit |-> read /\ a.ret])]
    IN  IF AvailableUsize(m.self) > bits + (IF select_bit THEN 1 ELSE 0)
        THEN Kept(Read(DoLogp(buf, Asked(m), bits)), TRUE)
        ELSE Kept(Asked(m), FALSE)

\* the first loop of TimeFrequencyChange::decode, from band i on
RECURSIVE TimeFrequencyLoop(_, _, _, _, _)
TimeFrequencyLoop(buf, m, i, bits, select_bit) ==
    IF i >= m.dec.band_range.end \/ ~Running(m) THEN m
    ELSE TimeFrequencyLoop(buf, TimeFrequencyBand(buf, m, i, bits, select_bit),
                           i + 1, IF m.dec.transient THEN 4 ELSE 5, select_bit)

\* TimeFrequencyChange::decode
TimeFrequencyStage(buf, m) ==
    LET bits == IF m.dec.transient THEN 2 ELSE 4
        select_bit == m.dec.size # 0 /\ AvailableUsize(m.self) > bits
        tf_select == TF_SELECT[m.dec.size + 1][IF m.dec.transient THEN 2 ELSE 1]
        Change(a) == IF a.change THEN 2 ELSE 1
        Mapped(a, select, read) ==
            IF ~Running(a) THEN a
            ELSE [a EXCEPT
                    !.select = select,
                    !.select_read = read,
                    !.flags = a.dec.time_frequency_change,
                    !.dec.time_frequency_change =
                        [i \in 0 .. MAX_BANDS - 1 |->
                            IF i >= a.dec.band_range.start /\ i < a.dec.band_range.end
                            THEN tf_select[select + 1][a.dec.time_frequency_change[i] + 1]
                            ELSE a.dec.time_frequency_change[i]]]
        Read(a) == IF ~Running(a) THEN a ELSE Mapped(a, IF a.ret THEN 1 ELSE 0, TRUE)
        Select(a) ==
            IF Running(a) /\ select_bit /\ tf_select[1][Change(a)] # tf_select[2][Change(a)]
            THEN Read(DoLogp(buf, a, 1))
            ELSE Mapped(a, 0, FALSE)
    IN  Select(TimeFrequencyLoop(buf,
                   [(IF m.dec.size # 0 THEN Asked(m) ELSE m) EXCEPT
                       !.diff = FALSE, !.change = FALSE],
                   m.dec.band_range.start, bits, select_bit))

\* Option<Spread> by the index icdf returns
SpreadOf(index) == <<"None", "Light", "Normal", "Aggressive">>[index + 1]

\* the `while` loop of the band boosts, for band i
RECURSIVE BoostLoop(_, _, _, _)
BoostLoop(buf, m, i, quanta) ==
    LET Accepted(a) ==
            IF ~Running(a) \/ ~a.ret THEN a
            ELSE BoostLoop(buf,
                     [a EXCEPT !.boost[i] = @ + quanta,
                               !.tbits_8ths = @ - quanta,
                               !.band_dynalloc = 1,
                               !.accepted = @ + 1],
                     i, quanta)
    IN  IF /\ Running(m)
           /\ TellFrac(m.self) + Shl(m.band_dynalloc, 3) < m.tbits_8ths
           /\ m.boost[i] < m.dec.caps[i]
        THEN Accepted(DoLogp(buf, m, m.band_dynalloc))
        ELSE m

\* `if boost[1] > 0 { dynalloc = 2.max(dynalloc - 1); }` after band i
DynallocAfter(dynalloc, boost, i) ==
    IF boost[1] > 0 THEN Max(2, dynalloc - 1) ELSE dynalloc

\* the body of the loop of the band boosts; quanta is computed on u8
BandBoost(buf, m, i) ==
    LET it == U8Shl(U8Shl(FREQ_RANGE[i + 1], m.dec.channels - 1), m.dec.size)
        quanta == Min(U8Shl(it, 3), Max(it, U8Shl(6, 3)))
        Kept(a) ==
            IF ~Running(a) THEN a
            ELSE [a EXCEPT
                    !.dynalloc = DynallocAfter(@, a.boost, i),
                    !.bands = Append(@, [band |-> i, quanta |-> quanta,
                                         accepted |-> a.accepted,
                                         dynalloc_before |-> a.dynalloc,
                                         dynalloc |-> DynallocAfter(a.dynalloc, a.boost, i),
                                         band_dynalloc |-> a.band_dynalloc,
                                         boost_before |-> m.boost[i],
                                         boost |-> a.boost[i],
                                         budget_before |-> m.tbits_8ths,
                                         budget |-> a.tbits_8ths])]
    IN  Kept(BoostLoop(buf, [m EXCEPT !.accepted = 0, !.band_dynalloc = m.dynalloc],
                       i, quanta))

\* the band boosts from band i on
RECURSIVE BandBoosts(_, _, _)
BandBoosts(buf, m, i) ==
    IF i >= m.dec.band_range.end \/ ~Running(m) THEN m
    ELSE BandBoosts(buf, BandBoost(buf, m, i), i + 1)

\* BitAlloc::decode, lines 120 to 131: the spread
BitAllocSpread(buf, m) ==
    LET Kept(a) == IF ~Running(a) THEN a ELSE [a EXCEPT !.dec.spread = SpreadOf(a.ret)]
    IN  IF AvailableUsize(m.self) > 4 THEN Kept(DoIcdf(buf, Asked(m), SPREAD_MODEL_DICT))
        ELSE [Asked(m) EXCEPT !.dec.spread = "Normal"]

\* BitAlloc::decode, lines 134 to 167: the static caps and the band boosts
BitAllocBoosts(buf, m) ==
    IF ~Running(m) THEN m
    ELSE BandBoosts(buf,
             [m EXCEPT
                !.dec.caps = StaticCaps(m.dec),
                !.under = @ \/ \E i \in 0 .. MAX_BANDS - 1 :
                                  StaticCapsBits(m.dec, i).overflow,
                !.dynalloc = 6,
                !.boost = [i \in 0 .. MAX_BANDS - 1 |-> 0],
                !.tbits_8ths = Shl(m.self.bitstream_length, 3)],
             m.dec.band_range.start)

\* BitAlloc::decode, lines 170 to 174: the allocation trim
BitAllocTrim(buf, m) ==
    LET Kept(a) == IF ~Running(a) THEN a ELSE [a EXCEPT !.dec.alloc_trim = a.ret]
    IN  IF ~Running(m) THEN m
        ELSE IF TellFrac(m.self) + Shl(6, 3) <= m.tbits_8ths
        THEN Kept(DoIcdf(buf, m, ALLOC_TRIM_MODEL))
        ELSE [m EXCEPT !.dec.alloc_trim = 5]

\* BitAlloc::decode, lines 177 to 276: the reservations, the bisection and
\* the final pass, which reads row `low` of STATIC_ALLOC
BitAllocTail(m) ==
    LET budget == Shl(m.self.bitstream_length, 3) - TellFrac(m.self) - 1
        Searched(a) ==
            [a EXCEPT !.rows = a.rows \cup {a.low},
                      !.self.st = IF a.low < VECTORS THEN "ok" ELSE "panic"]
        Bisected(a, b) ==
            Searched([a EXCEPT !.low = b.low, !.high = b.high, !.rows = b.rows])
        Reserved(a, r) ==
            Bisected([a EXCEPT !.dec.anticollapse_needed = r.anticollapse_needed,
                               !.budget = budget,
                               !.r = r,
                               !.tbits_8ths = r.tbits_8ths],
                     Bisection([a.dec EXCEPT !.anticollapse_needed = r.anticollapse_needed],
                               a.boost, r.tbits_8ths))
    IN  IF ~Running(m) THEN m ELSE Reserved(m, Reservations(m.dec, budget))

\* BitAlloc::decode
BitAllocStage(buf, m) ==
    BitAllocTail(BitAllocTrim(buf, BitAllocBoosts(buf, BitAllocSpread(buf, m))))

\* a stage as decode enters it
Machine ==
    [self |-> Entering(Self), dec |-> celt, ret |-> 0, reads |-> 0, under |-> FALSE,
     fwd |-> 0, rev |-> 0,
     post_filter |-> [decoded |-> FALSE],
     prev |-> [channel \in 0 .. 1 |-> 0], coarse |-> << >>, intra |-> FALSE,
     diff |-> FALSE, change |-> FALSE, select |-> 0, select_read |-> FALSE,
     tf |-> << >>,
     flags |-> [i \in 0 .. MAX_BANDS - 1 |-> 0],
     dynalloc |-> 0, band_dynalloc |-> 0, accepted |-> 0, bands |-> << >>,
     boost |-> [i \in 0 .. MAX_BANDS - 1 |-> 0], tbits_8ths |-> 0,
     budget |-> 0, r |-> [carried |-> 0], low |-> 0, high |-> 0, rows |-> {}]

\* the stage named `stage` has left m, and decode goes on at `next`; `kept`
\* is what the stage decoded.  last.wrapped tells whether a difference or
\* product has wrapped since decode was entered, which only a release
\* build passes.
Staged(stage, m, kept, next) ==
    /\ Store(m.self)
    /\ celt' = m.dec
    /\ status' \in (IF m.self.st # "ok" THEN Outcomes(m.self.st)
                    ELSE IF m.under /\ ~last.wrapped THEN {"ok", "panic"}
                    ELSE {"ok"})
    /\ last' = [op |-> stage, reads |-> m.reads, wrapped |-> last.wrapped \/ m.under,
                kept |-> kept]
    /\ fwd_pos' = fwd_pos + m.fwd
    /\ rev_pos' = rev_pos + m.rev
    /\ n_ops' = n_ops + m.reads
    /\ pc' = next
    /\ UNCHANGED bytes
    /\ UNCHANGED <<toc_byte, toc_out, packet, toc, datas, frames, result>>

CeltPostFilter ==
    /\ pc = "celt_post_filter"
    /\ status = "ok"
    /\ LET m == PostFilterStage(bytes, Machine)
       IN  Staged("post_filter", m, m.post_filter, "celt_transient")

CeltTransient ==
    /\ pc = "celt_transient"
    /\ status = "ok"
    /\ LET m == TransientStage(bytes, Machine)
       IN  Staged("transient", m, m.dec.transient, "celt_coarse_energy")

CeltCoarseEnergy ==
    /\ pc = "celt_coarse_energy"
    /\ status = "ok"
    /\ LET m == CoarseEnergyStage(bytes, Machine)
       IN  Staged("coarse_energy", m, [intra |-> m.intra, coarse |-> m.coarse],
                  "celt_time_frequency_change")

CeltTimeFrequencyChange ==
    /\ pc = "celt_time_frequency_change"
    /\ status = "ok"
    /\ LET m == TimeFrequencyStage(bytes, Machine)
       IN  Staged("time_frequency_change", m,
                  [available |-> AvailableUsize(Self), tf |-> m.tf,
                   select_read |-> m.select_read, select |-> m.select,
                   change |-> m.change, flags |-> m.flags],
                  "celt_bit_alloc")

CeltBitAlloc ==
    /\ pc = "celt_bit_alloc"
    /\ status = "ok"
    /\ LET m == BitAllocStage(bytes, Machine)
       IN  Staged("bit_alloc", m,
                  [bands |-> m.bands, boost |-> m.boost, budget |-> m.budget,
                   r |-> m.r, tbits_8ths |-> m.tbits_8ths,
                   low |-> m.low, high |-> m.high, rows |-> m.rows],
                  "celt_done")

CeltNext ==
    \/ CeltSilence
    \/ CeltSilenceUnderflow
    \/ CeltPostFilter
    \/ CeltTransient
    \/ CeltCoarseEnergy
    \/ CeltTimeFrequencyChange
    \/ CeltBitAlloc

CeltSpec == CeltInit /\ [][CeltNext]_vars

-----------------------------------------------------------------------------
(* PostFilter::decode called on the decoders the calls of RangeSpec leave. *)

CallPostFilterDecode ==
    /\ status = "ok"
    /\ n_ops < MaxOps
    /\ LET m == PostFilterDecode(bytes, Machine)
       IN  /\ Store(m.self)
           /\ status' \in (IF m.self.st # "ok" THEN Outcomes(m.self.st)
                           ELSE IF m.under THEN {"ok", "panic"}
                           ELSE {"ok"})
           /\ last' = [op |-> "post_filter_decode", arg |-> 0, ret |-> m.post_filter,
                       pos |-> fwd_pos, fetched |-> m.self.fetched, raw |-> m.rev,
                       rpos |-> rev_pos, range_wraps |-> m.self.range_wraps,
                       underflow |-> m.under,
                       before |-> [coded_value |-> coded_value,
                                   range_less1 |-> range_less1,
                                   consumed_bits |-> consumed_bits]]
           /\ fwd_pos' = fwd_pos + m.fwd
           /\ rev_pos' = rev_pos + m.rev
    /\ n_ops' = n_ops + 1
    /\ UNCHANGED <<bytes, celt>>
    /\ UNCHANGED packetVars

FilterNext ==
    \/ RangeNext
    \/ CallPostFilterDecode

FilterSpec == RangeInit /\ [][FilterNext]_vars

-----------------------------------------------------------------------------
(* Properties of the CELT frame decoder.                                   *)

\* C13: for every frame payload, from the construction of the range decoder
\* through CeltFrameDecoder::decode, tell() <= total_bits and
\* tell_frac() <= 8 * total_bits, so that available() and available_frac()
\* are never computed from a negative difference
C13_TellWithinPayload ==
    status = "ok" =>
        /\ Tell(Self) <= bitstream_length
        /\ TellFrac(Self) <= 8 * bitstream_length

\* C20: when the payload has no bits available, the empty payload in
\* particular, decode sets silence = true without reading a symbol and
\* without failing; when bits are available, silence is the result of
\* logp(15)
C20_SilenceFlag ==
    last.op = "silence" =>
        /\ status = "ok"
        /\ IF last.available > 0
           THEN last.read /\ celt.silence = last.ret
           ELSE ~last.read /\ celt.silence

\* C21: once decode has found the frame silent, no later stage reads a
\* symbol or raw bits from the range decoder, and the parameters it leaves
\* are all zero: no post-filter decoded, transient false, every coarse
\* energy 0 and every time-frequency change 0
C21_SilentFrameAllZero ==
    (celt.silence /\ status = "ok" /\ last.op \notin {"new", "silence"}) =>
        /\ last.reads = 0
        /\ last.op = "post_filter" => ~last.kept.decoded
        /\ ~celt.transient
        /\ \A channel \in 0 .. 1 : \A i \in 0 .. MAX_BANDS - 1 :
              celt.energy[channel][i] = 0
        /\ \A i \in 0 .. MAX_BANDS - 1 : celt.time_frequency_change[i] = 0

\* C27: the anti-collapse reservation is 8 exactly when transient, size >= 2
\* and the budget is at least (size + 2) * 8, and 0 otherwise; the budget
\* carried on to the skip and stereo reservations and to the bisection is the
\* budget before the reservation minus the reservation
C27_AntiCollapseReservation ==
    last.op = "reserve" =>
        /\ celt.anticollapse_needed =
              (IF celt.transient /\ celt.size >= 2 /\ last.budget >= (celt.size + 2) * 8
               THEN 8 ELSE 0)
        /\ last.r.carried = last.budget - celt.anticollapse_needed

\* the rows of STATIC_ALLOC, 1 to 10, whose total does not exceed the budget
FittingRows ==
    {row \in 1 .. VECTORS - 1 : RowTotal(celt, last.boost, row) <= last.tbits_8ths}

\* C28: in the band boosts the cost dynalloc starts at 6 and, after band i,
\* is lowered by one, not below 2, exactly when band i itself was boosted
\* (boost[i] > 0), and otherwise kept; every accepted boost adds the quantum
\* to boost[i], takes it from the budget and sets the cost of the band to 1
C28_DynallocPerBand ==
    (last.op = "bit_alloc" /\ status = "ok") =>
        \A k \in 1 .. Len(last.kept.bands) :
            LET band == last.kept.bands[k]
            IN  /\ band.dynalloc_before =
                      (IF k = 1 THEN 6 ELSE last.kept.bands[k - 1].dynalloc)
                /\ band.dynalloc =
                      (IF band.boost > 0 THEN Max(2, band.dynalloc_before - 1)
                       ELSE band.dynalloc_before)
                /\ band.boost = band.boost_before + band.accepted * band.quanta
                /\ band.budget = band.budget_before - band.accepted * band.quanta
                /\ band.band_dynalloc =
                      (IF band.accepted > 0 THEN 1 ELSE band.dynalloc_before)

\* C29: the bisection ends and selects the largest row of 1 .. 10 whose
\* total does not exceed the budget, as a scan of the rows in order would
\* (row 0 where none fits), so that the total of the selected row is within
\* the budget whenever a row fits
C29_BisectionSelectsLargestFit ==
    last.op = "bisection" =>
        /\ last.high = last.low - 1
        /\ IF FittingRows = {}
           THEN last.high = 0
           ELSE /\ last.high \in FittingRows
                /\ \A row \in FittingRows : row <= last.high
                /\ RowTotal(celt, last.boost, last.high) <= last.tbits_8ths

\* a bisection that ended on a row strictly inside the table, with boosts
C29_Witness ==
    /\ last.op = "bisection"
    /\ last.high \in 2 .. 8
    /\ last.boost[2] > 0
    /\ celt.channels = 2

C31_StaticCapsUnbounded ==
    (last.op = "bit_alloc" /\ status = "ok") =>
        \A i \in 0 .. MAX_BANDS - 1 :
            celt.caps[i] =
                Sar(Shl(Shl((STATIC_CAPS[celt.size + 1][celt.channels][i + 1] + 64)
                                * FREQ_RANGE[i + 1],
                            celt.channels - 1),
                        celt.size), 2)

\* C32: from a budget that is not negative, the skip bit is reserved when
\* the budget has 8 eighth-bits, then, for stereo only, LOG2_FRAC[bands] when
\* what is left covers it, then the dual-stereo bit when the intensity bits
\* were reserved and 8 eighth-bits are left; the budget never becomes
\* negative and a mono frame reserves neither stereo item
C32_SkipStereoReservations ==
    (last.op = "skip_stereo" /\ last.budget >= 0) =>
        LET s == last.s
            log2_frac == LOG2_FRAC[celt.band_range.end - celt.band_range.start + 1]
            after_skip == last.budget - s.skip_bit
            intensity == celt.channels = 2 /\ log2_frac <= after_skip
        IN  /\ s.skip_bit = (IF last.budget >= 8 THEN 8 ELSE 0)
            /\ s.intensitystereo_bit = (IF intensity THEN log2_frac ELSE 0)
            /\ s.dualstereo_bit =
                  (IF intensity /\ after_skip - log2_frac >= 8 THEN 8 ELSE 0)
            /\ s.tbits_8ths = last.budget - s.skip_bit - s.intensitystereo_bit
                              - s.dualstereo_bit
            /\ s.tbits_8ths >= 0
            /\ celt.channels = 1 => s.intensitystereo_bit = 0 /\ s.dualstereo_bit = 0

\* a stereo frame that reserved all three items
C32_Witness ==
    /\ last.op = "skip_stereo"
    /\ celt.channels = 2
    /\ last.s.skip_bit = 8
    /\ last.s.intensitystereo_bit > 0
    /\ last.s.dualstereo_bit = 8

\* C33: after the coarse energies are decoded, every band of band_range of
\* every channel in use has energy = max(-9, alpha * energy before
\* + prev[channel] + value), and so an energy of at least -9 (energies in
\* units of 1/32768)
C33_EnergyAtLeastMinus9 ==
    (last.op = "coarse_energy" /\ status = "ok") =>
        \A k \in 1 .. Len(last.kept.coarse) :
            LET band == last.kept.coarse[k]
            IN  /\ celt.energy[band.channel][band.band] = Max(0 - 9 * 32768, band.sum)
                /\ celt.energy[band.channel][band.band] >= 0 - 9 * 32768

\* C34: with at least 15 bits available the pair handed to laplace for band
\* b is (128 * T[2 * min(b, 20)], 64 * T[2 * min(b, 20) + 1]) with
\* T = COARSE_ENERGY_DICT[size][intra], not cut to eight bits; with fewer
\* bits no Laplace symbol is read and the value is -1, 0 or 1
C34_LaplacePairNotTruncated ==
    (last.op = "coarse_energy" /\ status = "ok") =>
        \A k \in 1 .. Len(last.kept.coarse) :
            LET band == last.kept.coarse[k]
                T == COARSE_ENERGY_DICT[celt.size + 1][IF last.kept.intra THEN 2 ELSE 1]
                b == Min(band.band, 20)
            IN  IF band.available >= 15
                THEN /\ band.symbol = 128 * T[2 * b + 1]
                     /\ band.decay = 64 * T[2 * b + 2]
                ELSE band.value \in {-1, 0, 1}

\* C35: after the time-frequency stage every band b of band_range has
\* tf_change[b] = TF_SELECT[size][transient][select][f_b], f_b being the
\* XOR of the bits read for the bands up to b (a band without a read keeps
\* the flag); select is 0 unless size is not 0, the bits available at the
\* start allowed a select bit and the two select rows differ at the change
\* flag, and then it is one logp(1) read
C35_TfChangeMapping ==
    (last.op = "time_frequency_change" /\ status = "ok") =>
        LET tf == last.kept.tf
            rows == TF_SELECT[celt.size + 1][IF celt.transient THEN 2 ELSE 1]
            Flag(b) == Cardinality({j \in 1 .. Len(tf) :
                                      tf[j].band <= b /\ tf[j].read /\ tf[j].bit}) % 2
            change == IF \E j \in 1 .. Len(tf) : tf[j].read /\ Flag(tf[j].band) = 1
                      THEN 1 ELSE 0
            allowed == celt.size # 0
                       /\ last.kept.available > (IF celt.transient THEN 2 ELSE 4)
            chosen == allowed /\ rows[1][change + 1] # rows[2][change + 1]
        IN  /\ Len(tf) = celt.band_range.end - celt.band_range.start
            /\ \A j \in 1 .. Len(tf) : tf[j].band = celt.band_range.start + j - 1
            /\ \A b \in celt.band_range.start .. celt.band_range.end - 1 :
                  celt.time_frequency_change[b] = rows[last.kept.select + 1][Flag(b) + 1]
            /\ last.kept.select_read = chosen
            /\ ~chosen => last.kept.select = 0
            /\ last.reads = Cardinality({j \in 1 .. Len(tf) : tf[j].read})
                            + (IF chosen THEN 1 ELSE 0)

\* a frame in which a set bit was read, a later band read another bit, and
\* the select bit was read
C35_Witness ==
    /\ last.op = "time_frequency_change"
    /\ status = "ok"
    /\ last.kept.select_read
    /\ \E j, k \in 1 .. Len(last.kept.tf) :
          /\ j < k
          /\ last.kept.tf[j].bit
          /\ last.kept.tf[k].read

\* C36: whenever a post-filter is decoded, in any state of the range
\* decoder, the octave is in 0..5, the period
\* (16 << octave) + rawbits(4 + octave) - 1 is in 15..1022 and the tapset
\* is 0, 1 or 2, and 0 when fewer than 2 bits are available
C36_PostFilterInBounds ==
    (last.op = "post_filter_decode" /\ status = "ok") =>
        /\ last.ret.decoded
        /\ last.ret.octave \in 0 .. 5
        /\ last.ret.period \in 15 .. 1022
        /\ last.ret.period >= Shl(16, last.ret.octave) - 1
        /\ last.ret.period <= Shl(16, last.ret.octave) + Shl(16, last.ret.octave) - 2
        /\ last.ret.tapset \in 0 .. 2
        /\ last.ret.available < 2 => last.ret.tapset = 0

\* a post-filter decoded with the highest octave and a tapset other than 0
C36_Witness ==
    /\ last.op = "post_filter_decode"
    /\ status = "ok"
    /\ last.ret.octave = 5
    /\ last.ret.tapset > 0

\* C37: for every TOC byte whose mode is CELT or Hybrid the size that
\* CeltFrameDecoder::decode computes, log2(duration / 120), is one of 0, 1,
\* 2, 3, and in every state of a frame being decoded the size is a row of
\* each size-indexed table of the coarse-energy, time-frequency and
\* bit-allocation stages
C37_SizeIndexesTables ==
    /\ \A b \in 0 .. 255 :
          LET t == TableOfContentsDecode(b)
              entered == CeltEntered([mode |-> t.mode,
                                      bandwidth |-> t.bandwidth,
                                      duration |-> t.duration,
                                      code |-> t.code, channels |-> 1])
          IN  t.mode \in {"CELT", "Hybrid"} =>
                 /\ entered.size \in 0 .. 3
                 /\ 2 ^ entered.size * SHORT_BLOCKSIZE
                       = FrameDurationValue[t.duration]
    /\ (pc # "celt_entry" /\ result # "BandsOverflow") =>
          /\ celt.size \in 0 .. 3
          /\ 2 ^ celt.size * SHORT_BLOCKSIZE = FrameDurationValue[toc.duration]
          /\ celt.size + 1 \in DOMAIN COARSE_ENERGY_DICT
          /\ celt.size + 1 \in DOMAIN ALPHA_COEF
          /\ celt.size + 1 \in DOMAIN BETA_COEF
          /\ celt.size + 1 \in DOMAIN TF_SELECT
          /\ celt.size + 1 \in DOMAIN STATIC_CAPS

\* a 20 ms Hybrid frame has gone through every stage with size 3
C37_Witness ==
    /\ pc = "celt_done"
    /\ status = "ok"
    /\ toc.mode = "Hybrid"
    /\ celt.size = 3

\* C38: for every TOC byte band_range is [17, end) in Hybrid mode and
\* [0, end) otherwise, end being 13, 17, 17, 19, 21 for Narrow, Medium,
\* Wide, SuperWide, Full, so that 0 <= start < end <= 21, and decode never
\* returns BandsOverflow
C38_BandRange ==
    /\ \A b \in 0 .. 255 :
          LET t == TableOfContentsDecode(b)
              r == CeltEntered([mode |-> t.mode, bandwidth |-> t.bandwidth,
                                duration |-> t.duration, code |-> t.code,
                                channels |-> 1]).band_range
          IN  /\ r.start = IF t.mode = "Hybrid" THEN 17 ELSE 0
              /\ r.end = CASE t.bandwidth = "Narrow" -> 13
                           [] t.bandwidth = "Medium" -> 17
                           [] t.bandwidth = "Wide" -> 17
                           [] t.bandwidth = "SuperWide" -> 19
                           [] t.bandwidth = "Full" -> 21
              /\ 0 <= r.start /\ r.start < r.end /\ r.end <= 21
    /\ result # "BandsOverflow"
    /\ pc # "celt_entry" =>
          /\ celt.band_range.start = (IF toc.mode = "Hybrid" THEN 17 ELSE 0)
          /\ 0 <= celt.band_range.start
          /\ celt.band_range.start < celt.band_range.end
          /\ celt.band_range.end <= 21

\* a Hybrid frame has passed the band check with the range [17, 19)
C38_Witness ==
    /\ pc # "celt_entry"
    /\ toc.mode = "Hybrid"
    /\ celt.band_range = [start |-> 17, end |-> 19]

\* C39: OpusPacket::decode returns Ok or Err for every non-empty packet of
\* every mode: a CELT packet whose payloads were demuxed returns Ok with one
\* OpusFrame per payload, and a SILK or Hybrid packet returns too, never
\* ending in an unimplemented path
C39_DecodeReturns ==
    (pc = "done" /\ packet.len >= 1) =>
        /\ result \in {"Ok", "InvalidData", "FramesOverflow"}
        /\ result = "Ok" => Len(frames) = Len(datas)
        /\ (toc.mode = "CELT" /\ result = "Ok") =>
              \A i \in 1 .. Len(datas) : frames[i] = "OpusFrame"

-----------------------------------------------------------------------------
(* src/src/lib.rs: OggOpusHead::try_from.  The header is a sequence of     *)
(* bytes, byte k of the source (counted from 0) being b[k + 1].            *)

\* "OpusHead" and "OpusTags" in ASCII
OpusHeadMagic == <<79, 112, 117, 115, 72, 101, 97, 100>>
OpusTagsMagic == <<79, 112, 117, 115, 84, 97, 103, 115>>

\* the parts a header is put together from: magic, version, channel count,
\* pre-skip, sample rate (48000 and 8000), the two gain bytes, the mapping
\* family and what follows it
HeadMagics == {OpusHeadMagic, OpusTagsMagic}
HeadVersions == {1, 2}
HeadChannelCounts == {1, 2}
HeadPreSkips == {<<56, 0>>, <<0, 15>>}
HeadSampleRates == {<<128, 187, 0, 0>>, <<64, 31, 0, 0>>}
HeadGainBytes == {0, 1, 128, 255}
HeadFamilies == {0, 1}
HeadTails == {<< >>, <<1, 0>>, <<1, 0, 0>>, <<2, 1, 0, 1>>}

\* whole headers, and the headers with family 0 cut one byte short
HeadBuffers ==
    LET whole ==
          { magic \o <<version, channel_count>> \o pre_skip \o rate
              \o <<g0, g1, family>> \o tail :
                magic \in HeadMagics, version \in HeadVersions,
                channel_count \in HeadChannelCounts,
                pre_skip \in HeadPreSkips, rate \in HeadSampleRates,
                g0 \in HeadGainBytes, g1 \in HeadGainBytes,
                family \in HeadFamilies, tail \in HeadTails }
    IN  whole \cup { SubSeq(h, 1, Len(h) - 1) : h \in {w \in whole : Len(w) = 19} }

\* OggOpusHead::try_from: get_u8, get_u16_le and get_u32_le for the first
\* fields, get_u16 (big-endian) for output_gain; an error is its name and,
\* for UnexpectedVersionNumber, the version read (0 otherwise)
OggOpusHeadTryFrom(b) ==
    LET GetU8(at) == b[at + 1]
        GetU16Le(at) == b[at + 1] + 256 * b[at + 2]
        GetU32Le(at) == b[at + 1] + 256 * b[at + 2] + 65536 * b[at + 3]
                           + 16777216 * b[at + 4]
        GetU16(at) == 256 * b[at + 1] + b[at + 2]
        Err(name, version) ==
            [ok |-> FALSE, err |-> [name |-> name, version |-> version]]
        Ok(family) ==
            [ok |-> TRUE,
             head |-> [channel_count |-> GetU8(9),
                       pre_skip |-> GetU16Le(10),
                       input_sample_rate |-> GetU32Le(12),
                       output_gain |-> GetU16(16),
                       channel_mapping_family |-> family]]
    IN  IF Len(b) < 19 THEN Err("InvalidData", 0)
        ELSE IF SubSeq(b, 1, 8) # OpusHeadMagic THEN Err("NotOpusHead", 0)
        ELSE IF GetU8(8) # 1
             THEN Err("UnexpectedVersionNumber", GetU8(8))
        ELSE IF GetU8(18) = 0 THEN Ok([family |-> "Normal"])
        ELSE IF Len(b) - 19 < GetU8(9) + 2 THEN Err("InvalidData", 0)
        ELSE Ok([family |-> "Complex",
                 stream_count |-> GetU8(19),
                 coupled_count |-> GetU8(20),
                 channel_mapping |-> SubSeq(b, 22, 21 + GetU8(9))])

\* a header waiting to be decoded
HeadInit ==
    /\ PacketIdle
    /\ DecoderIdle
    /\ bytes \in HeadBuffers
    /\ forward_reader = [index |-> 0, left |-> 0]
    /\ reverse_reader = [index |-> 0, left |-> 0]
    /\ status = "idle"
    /\ last = [op |-> "none"]
    /\ n_ops = 0
    /\ fwd_pos = 0
    /\ rev_pos = 0

\* the call OggOpusHead::try_from(bytes)
HeadTryFrom ==
    /\ last.op = "none"
    /\ last' = [op |-> "try_from", ret |-> OggOpusHeadTryFrom(bytes)]
    /\ UNCHANGED <<bytes, forward_reader, reverse_reader, coded_value,
                   range_less1, consumed_bits, bitstream_length, status,
                   n_ops, fwd_pos, rev_pos, celt>>
    /\ UNCHANGED packetVars

HeadNext == HeadTryFrom

HeadSpec == HeadInit /\ [][HeadNext]_vars

\* C40: OggOpusHead::try_from decodes output_gain from header bytes 16-17
\* as a little-endian 16-bit value, as it decodes pre_skip (bytes 10-11) and
\* input_sample_rate (bytes 12-15)
C40_OutputGainLittleEndian ==
    (last.op = "try_from" /\ last.ret.ok) =>
        /\ last.ret.head.pre_skip = bytes[11] + 256 * bytes[12]
        /\ last.ret.head.input_sample_rate
              = bytes[13] + 256 * bytes[14] + 65536 * bytes[15]
                  + 16777216 * bytes[16]
        /\ last.ret.head.output_gain = bytes[17] + 256 * bytes[18]

====
